---- MODULE Spec2Model ----
(***************************************************************************)
(* Clip_Automator: the real-time clipper.                                  *)
(*                                                                         *)
(*   RealtimeClipper._on_trigger  (src/src/realtime/realtime_clipper.py)   *)
(*       the clip actuator: log, daily roll, quota, priority, cooldown,    *)
(*       segment lookup, muxer call, commit of last_clip_time/clips_today  *)
(*   SegmentRecorder              (same file)                              *)
(*       the rolling buffer of segment files and its monitor thread        *)
(*   BaseTrigger.fire             (src/src/realtime/triggers/base.py)      *)
(*       the synchronous delivery of an event to the callback, on the      *)
(*       thread of the source that detected it                             *)
(*                                                                         *)
(* Time is in whole seconds.  Confidences and ratios are in hundredths     *)
(* (0.9 is 90, 3.0 is 300).                                                *)
(***************************************************************************)
EXTENDS Integers, Sequences, FiniteSets, TLC

VARIABLES
    now,             \* datetime.now(), in seconds since midnight of day 0
    advances,        \* how many times the clock has moved (bounds the run)
    last_clip_time,  \* RealtimeClipper.last_clip_time (None or a time)
    clips_today,     \* RealtimeClipper.clips_today
    clip_date,       \* RealtimeClipper.clip_date (a day number)
    pc,              \* per source thread: where it is inside _on_trigger
    ev,              \* per source thread: the event it is delivering
    loc,             \* per source thread: the locals of its _on_trigger call
    res,             \* per source thread: how its last _on_trigger call ended
    made,            \* history: successful muxer runs, per day (the day the handler read)
    files,           \* the segment directory: chunk numbers, sorted by mtime
    running,         \* SegmentRecorder.running
    process,         \* SegmentRecorder.process: "none", "alive" or "dead"
    next_chunk,      \* the number ffmpeg gives the next chunk_%04d.ts
    mon,             \* the live _monitor_segments threads: each one's last_count
    polled,          \* history: a monitor has polled since ffmpeg last wrote a file
    starts,          \* how many times SegmentRecorder.start() ran (bounds the run)
    lookup,          \* history: the last get_recent_segments call and what it returned
    message_times,   \* ChatTrigger.message_times
    keyword_counts,  \* ChatTrigger.keyword_counts
    samples,         \* DynamicBaseline.samples: (timestamp, velocity) pairs
    dynamic_baseline, \* ChatTrigger.dynamic_baseline is not None
    events,          \* ComboTrigger.events: (trigger_type, timestamp) pairs
    emitted,         \* history: the events the last chat message made ChatTrigger fire
    sent,            \* history: the arrival time of every chat message so far
    recorded,        \* history: every (trigger_type, timestamp) ChatTrigger gave to record_event
    keyword_log,     \* history: per chat message, the keywords it contains and those that fired
    answer,          \* history: the last DynamicBaseline.is_spike call and its result
    combo,           \* history: the last ComboTrigger.check_combo call and its result
    calls,           \* how many calls a component studied alone has had (bounds the run)
    viewer_history,  \* ViewerTrigger.viewer_history
    is_live,         \* ViewerTrigger.is_live
    chatroom_id,     \* ViewerTrigger.chatroom_id (None until the first answer)
    next_poll,       \* when the time.sleep(POLL_INTERVAL) of the viewer loop ends
    polls,           \* how many times the viewer loop has polled (bounds the run)
    spikes,          \* history: when each viewer_spike was fired
    stream_data,     \* history: every answer get_stream_data gave the viewer loop
    viewer_out,      \* history: what the last poll of the viewer loop fired
    run_pc,          \* where RealtimeClipper.run is: "init", "chatroom", "await_live", "main", "done"
    clipper_running, \* RealtimeClipper.running
    tries,           \* how many times run() has asked for the chatroom id in vain
    viewer_trigger,  \* RealtimeClipper.viewer_trigger: "none", "running" or "stopped"
    chat_trigger,    \* RealtimeClipper.chat_trigger: "none", "running" or "stopped"
    stopped,         \* history: RealtimeClipper.stop() has been called from outside run()
    other_clipper,   \* the clipper thread of a second streamer: "none", "running" or "ended"
    crashed,         \* the source threads an exception of the callback has ended
    recent_triggers, \* SharedStats.recent_triggers
    viewer_counts,   \* SharedStats.viewer_counts
    data_lock,       \* SharedStats._data_lock: the thread holding it, or NoClient
    stats_pc,        \* per dashboard client thread: where it is inside its SharedStats call
    adds,            \* history: how many add_trigger calls have inserted their event
    written,         \* history: the last count update_viewers was called with, per streamer
    upload_pc,       \* where Uploader.upload is: "idle", "loop", "upload", "retry" or "returned"
    status,          \* Uploader._status
    authenticated,   \* Uploader._authenticated
    attempts,        \* the local attempts of the upload() call
    do_uploads,      \* history: how many times the upload() call has invoked _do_upload
    upload_calls,    \* history: how many upload() calls the uploader has received
    last_error,      \* Uploader._last_error: the kind of the last error recorded
    last_result,     \* upload(): the local last_result (NoResult for None)
    result           \* the UploadResult the upload() call returned (success, attempts)

chatVars ==
    <<message_times, keyword_counts, samples, dynamic_baseline, events, emitted, sent, recorded,
      keyword_log>>
queryVars == <<lookup, answer, combo, calls>>
viewerVars ==
    <<viewer_history, is_live, chatroom_id, next_poll, polls, spikes, stream_data, viewer_out>>
orchVars ==
    <<run_pc, clipper_running, tries, viewer_trigger, chat_trigger, stopped, other_clipper>>
faultVars == <<crashed>>
statsVars == <<recent_triggers, viewer_counts, data_lock, stats_pc, adds, written>>
uploadVars == <<upload_pc, status, authenticated, attempts, do_uploads, upload_calls,
      last_error, last_result, result>>
sideVars == <<faultVars, statsVars, uploadVars>>
signalVars == <<chatVars, queryVars, viewerVars, orchVars, sideVars>>

vars == <<now, advances, last_clip_time, clips_today, clip_date, pc, ev, loc, res,
          made, files, running, process, next_chunk, mon, polled, starts, signalVars>>

actuatorVars == <<last_clip_time, clips_today, clip_date, pc, ev, loc, res, made>>
recorderVars == <<files, running, process, next_chunk, mon, polled, starts>>
clockVars    == <<now, advances>>

(***************************************************************************)
(* config/settings.py                                                      *)
(***************************************************************************)
CLIP_BEFORE == 20
CLIP_AFTER == 25
CLIP_COOLDOWN == 60
HIGH_PRIORITY_CONFIDENCE == 90
SEGMENT_DURATION == 10
SEGMENTS_TO_KEEP == 12

\* settings.py sets MAX_CLIPS_PER_DAY = 50; the model runs the actuator with a
\* quota of 2 a day (the value the specification's own example uses), so that
\* a day's quota is used up within a few events.
MAX_CLIPS_PER_DAY == 2

\* Python's None for last_clip_time, and for a local not yet assigned.
None == -1

\* datetime.now().date(): the day number of a time.
SECONDS_PER_DAY == 24 * 60 * 60
Date(t) == t \div SECONDS_PER_DAY

(***************************************************************************)
(* Bounds of the model.                                                    *)
(***************************************************************************)
MaxAdvances == 2     \* clock moves in one run
MaxActuatorChunks == 1   \* segment files written while the actuator is studied
MaxChunks == 15      \* segment files one ffmpeg process writes
MaxStarts == 2       \* runs of SegmentRecorder.start()

Threads == {"viewer", "chat"}
Days == 0..MaxAdvances

(***************************************************************************)
(* Trigger events, as far as _on_trigger reads them: trigger_type,         *)
(* confidence and data.get("ratio", 0).                                    *)
(***************************************************************************)
Event(type, confidence, ratio) ==
    [type |-> type, confidence |-> confidence, ratio |-> ratio]

NoEvent == Event("none", 0, 0)

\* ViewerTrigger.start: a viewer_spike is fired only when ratio >= SPIKE_THRESHOLD
\* (3.0) and carries confidence min(ratio / SPIKE_THRESHOLD, 1.0), which is 1.0.
ViewerEvents == { Event("viewer_spike", 100, r) : r \in {300, 350} }

\* ChatTrigger._process_chat_message: chat_velocity with confidence
\* min(velocity / max(threshold, 15), 1.0); keyword with 0.5 + excitement score;
\* combo_chat_combo with the confidence ComboTrigger.check_combo computed (one
\* occurrence of each type: (1/3 + 1/3)/2 + 0.15 = 0.48).  The handler passes
\* detect_emote_flood one message, which needs five, and its combo window
\* never holds a viewer_spike: emote_flood and the combos other than
\* chat_combo are never emitted.
ChatEvents ==
    { Event("chat_velocity", 50, 0), Event("chat_velocity", 100, 0),
      Event("keyword", 50, 0), Event("combo_chat_combo", 48, 0) }

EventsOf(t) == IF t = "viewer" THEN ViewerEvents ELSE ChatEvents

\* The locals of one _on_trigger call.
NoLocals ==
    [logged    |-> FALSE,   \* the TRIGGER banner was printed (lines 328-332)
     today     |-> None,    \* today (line 335)
     quota     |-> None,    \* self.clips_today as read by the limit check (line 342)
     hp        |-> FALSE,   \* is_high_priority (line 347)
     hadPrev   |-> FALSE,   \* self.last_clip_time was set at the check (line 354)
     elapsed   |-> None,    \* elapsed (line 355 or 361)
     segments  |-> <<>>,    \* segments (line 367)
     mux       |-> "none",  \* how the muxer run ended: none, ok, fail, timeout
     created   |-> None,    \* history: when create_clip returned the clip's path
     tmp       |-> None]    \* the value loaded by self.clips_today += 1

\* No get_recent_segments call, is_spike call or check_combo call made yet.
NoLookup == [segments |-> <<>>, seconds |-> None, buffer |-> <<>>]
NoAnswer == [at |-> None, velocity |-> None, used |-> <<>>, spike |-> FALSE]
NoCheck == [result |-> <<>>, checked |-> FALSE, window |-> <<>>]

DYNAMIC_THRESHOLD_ENABLED == TRUE

\* The threads that call SharedStats: per streamer one that reports viewer
\* counts and one that reports trigger events.
StatsStreamers == {"xQc", "Shroud"}
StatsClients == [kind : {"viewers", "triggers"}, streamer : StatsStreamers]
NoClient == [kind |-> "none", streamer |-> "none"]

\* No upload() call has returned yet.
NoResult == [attempts |-> 0, returned |-> FALSE, success |-> FALSE, error |-> "none"]

\* The objects as their constructors leave them.
Constructed ==
    /\ now = 0
    /\ advances = 0
    /\ last_clip_time = None
    /\ clips_today = 0
    /\ clip_date = Date(0)
    /\ pc = [t \in Threads |-> "idle"]
    /\ ev = [t \in Threads |-> NoEvent]
    /\ loc = [t \in Threads |-> NoLocals]
    /\ res = [t \in Threads |-> "none"]
    /\ made = [d \in Days |-> 0]
    /\ files = <<>>
    /\ running = FALSE
    /\ process = "none"
    /\ next_chunk = 0
    /\ mon = <<>>
    /\ polled = FALSE
    /\ starts = 0
    /\ lookup = NoLookup
    /\ message_times = <<>>
    /\ keyword_counts = [k \in {} |-> 0]
    /\ samples = <<>>
    /\ events = <<>>
    /\ emitted = <<>>
    /\ sent = <<>>
    /\ recorded = <<>>
    /\ keyword_log = <<>>
    /\ answer = NoAnswer
    /\ combo = NoCheck
    /\ calls = 0
    /\ viewer_history = <<>>
    /\ is_live = FALSE
    /\ chatroom_id = None
    /\ next_poll = 0
    /\ polls = 0
    /\ spikes = <<>>
    /\ stream_data = <<>>
    /\ viewer_out = NoEvent
    /\ run_pc = "init"
    /\ clipper_running = FALSE
    /\ tries = 0
    /\ viewer_trigger = "none"
    /\ chat_trigger = "none"
    /\ stopped = FALSE
    /\ other_clipper = "none"
    /\ crashed = {}
    /\ recent_triggers = <<>>
    /\ viewer_counts = [s \in {} |-> 0]
    /\ data_lock = NoClient
    /\ stats_pc = [c \in StatsClients |-> "idle"]
    /\ adds = 0
    /\ written = [s \in {} |-> 0]
    /\ upload_pc = "idle"
    /\ status = "pending"
    /\ authenticated = FALSE
    /\ attempts = 0
    /\ do_uploads = 0
    /\ upload_calls = 0
    /\ last_error = "none"
    /\ last_result = NoResult
    /\ result = NoResult

\* ChatTrigger.__init__ creates the DynamicBaseline if the setting says so.
Init == Constructed /\ dynamic_baseline = DYNAMIC_THRESHOLD_ENABLED

\* The same with the static threshold (DYNAMIC_THRESHOLD_ENABLED = False).
InitStatic == Constructed /\ dynamic_baseline = FALSE

(***************************************************************************)
(* The clock.                                                              *)
(***************************************************************************)
ToMidnight == SECONDS_PER_DAY - (now % SECONDS_PER_DAY)

Advance(d) ==
    /\ advances < MaxAdvances
    /\ now' = now + d
    /\ advances' = advances + 1
    /\ UNCHANGED <<actuatorVars, recorderVars, signalVars>>

(***************************************************************************)
(* SegmentRecorder: the segment directory.                                 *)
(***************************************************************************)
\* Python's s[-n:] for n >= 1: the last n elements, or all of s when shorter.
LastN(s, n) == IF Len(s) <= n THEN s ELSE SubSeq(s, Len(s) - n + 1, Len(s))

\* get_segments: the chunk files sorted by mtime; files is kept in that order.
get_segments == files

\* get_recent_segments(seconds)
get_recent_segments(seconds) ==
    LET num_segments == (seconds \div SEGMENT_DURATION) + 1
        segments == get_segments
    IN  IF segments # <<>> THEN LastN(segments, num_segments) ELSE <<>>

\* _cleanup_old_segments: what is left of the directory listing s.
cleanup_old_segments(s) ==
    IF Len(s) > SEGMENTS_TO_KEEP THEN LastN(s, SEGMENTS_TO_KEEP) ELSE s

\* is_recording
is_recording == running /\ process = "alive"

(***************************************************************************)
(* BaseTrigger.fire and RealtimeClipper._on_trigger, one step per access   *)
(* to the state the two source threads share.                              *)
(***************************************************************************)
\* The call returns: outcome is the branch it returned from.
Return(t, l, outcome) ==
    /\ pc' = [pc EXCEPT ![t] = "idle"]
    /\ loc' = [loc EXCEPT ![t] = l]
    /\ res' = [res EXCEPT ![t] = outcome]

Goto(t, l, label) ==
    /\ pc' = [pc EXCEPT ![t] = label]
    /\ loc' = [loc EXCEPT ![t] = l]
    /\ UNCHANGED res

\* BaseTrigger.fire(event): print, then call the callback (RealtimeClipper.run
\* gives both sources callback=self._on_trigger) on the source's own thread.
\* The event, locals and outcome of a call that has returned are kept for
\* reading until the next event is fired, and dropped then.
Kept(t, u) == u # t /\ pc[u] # "idle"

callback(t, e) ==
    /\ pc[t] = "idle"
    /\ pc' = [pc EXCEPT ![t] = "log"]
    /\ ev' = [u \in Threads |-> IF u = t THEN e ELSE IF Kept(t, u) THEN ev[u] ELSE NoEvent]
    /\ loc' = [u \in Threads |-> IF Kept(t, u) THEN loc[u] ELSE NoLocals]
    /\ res' = [u \in Threads |-> IF Kept(t, u) THEN res[u] ELSE "none"]

\* fire(event) while nothing else changes.
fire(t, e) ==
    /\ callback(t, e)
    /\ UNCHANGED <<last_clip_time, clips_today, clip_date, made, clockVars, recorderVars, signalVars>>

\* Mutant of on_trigger_log: the banner is printed after the daily limit check,
\* so an event refused for the limit is not logged.
on_trigger_log_after_limit(t) ==
    /\ pc[t] = "log"
    /\ IF clips_today >= MAX_CLIPS_PER_DAY
       THEN Return(t, loc[t], "rej_quota")
       ELSE Goto(t, [loc[t] EXCEPT !.logged = TRUE], "roll")
    /\ UNCHANGED <<ev, last_clip_time, clips_today, clip_date, made, clockVars, recorderVars, signalVars>>

\* lines 327-332: the TRIGGER banner
on_trigger_log(t) ==
    /\ pc[t] = "log"
    /\ Goto(t, [loc[t] EXCEPT !.logged = TRUE], "roll")
    /\ UNCHANGED <<ev, last_clip_time, clips_today, clip_date, made, clockVars, recorderVars, signalVars>>

\* line 336
NewDay(today, marker) == today # marker

\* Mutant of on_trigger_roll: the day marker is updated but the counter is
\* not reset.
on_trigger_roll_keeps_count(t) ==
    /\ pc[t] = "roll"
    /\ clip_date' = Date(now)
    /\ Goto(t, [loc[t] EXCEPT !.today = Date(now)], "quota")
    /\ UNCHANGED <<ev, last_clip_time, clips_today, made, clockVars, recorderVars, signalVars>>

\* lines 334-339: reset the daily counter at midnight
on_trigger_roll(t) ==
    /\ pc[t] = "roll"
    /\ LET today == Date(now)
       IN  /\ IF NewDay(today, clip_date)
              THEN clip_date' = today /\ clips_today' = 0
              ELSE UNCHANGED <<clip_date, clips_today>>
           /\ Goto(t, [loc[t] EXCEPT !.today = today], "quota")
    /\ UNCHANGED <<ev, last_clip_time, made, clockVars, recorderVars, signalVars>>

\* Mutant of LimitReached: > instead of >=.
LimitReachedStrictly(n) == n > MAX_CLIPS_PER_DAY

\* line 342: the limit test
LimitReached(n) == n >= MAX_CLIPS_PER_DAY

\* lines 341-344: the daily limit
on_trigger_quota(t) ==
    /\ pc[t] = "quota"
    /\ LET l == [loc[t] EXCEPT !.quota = clips_today]
       IN  IF LimitReached(clips_today)
           THEN Return(t, l, "rej_quota")
           ELSE Goto(t, l, "cooldown")
    /\ UNCHANGED <<ev, last_clip_time, clips_today, clip_date, made, clockVars, recorderVars, signalVars>>

\* lines 347-351
is_high_priority(e) ==
    \/ e.confidence >= HIGH_PRIORITY_CONFIDENCE
    \/ e.type \in {"combo", "super_combo", "hype_moment"}
    \/ (e.type = "viewer_spike" /\ e.ratio >= 300)

\* Mutant of InCooldown: <= instead of <.
InCooldownInclusive(elapsed) == elapsed <= CLIP_COOLDOWN

\* line 356: the cooldown test
InCooldown(elapsed) == elapsed < CLIP_COOLDOWN

\* lines 346-363: priority and cooldown
on_trigger_cooldown(t) ==
    /\ pc[t] = "cooldown"
    /\ LET hp == is_high_priority(ev[t])
           prev == last_clip_time # None
           elapsed == IF prev THEN now - last_clip_time ELSE None
           l == [loc[t] EXCEPT !.hp = hp, !.hadPrev = prev, !.elapsed = elapsed]
       IN  IF prev /\ ~hp /\ InCooldown(elapsed)
           THEN Return(t, l, "rej_cooldown")
           ELSE Goto(t, l, "segments")
    /\ UNCHANGED <<ev, last_clip_time, clips_today, clip_date, made, clockVars, recorderVars, signalVars>>

\* Mutant of on_trigger_segments: an attempt with no segments starts the
\* cooldown.
on_trigger_segments_starts_cooldown(t) ==
    /\ pc[t] = "segments"
    /\ LET segments == get_recent_segments(CLIP_BEFORE + CLIP_AFTER)
           l == [loc[t] EXCEPT !.segments = segments]
       IN  IF segments = <<>>
           THEN Return(t, l, "rej_empty") /\ last_clip_time' = now
           ELSE Goto(t, l, "create") /\ UNCHANGED last_clip_time
    /\ UNCHANGED <<ev, clips_today, clip_date, made, clockVars, recorderVars, signalVars>>

\* lines 365-371: the recent segments
on_trigger_segments(t) ==
    /\ pc[t] = "segments"
    /\ LET clip_duration == CLIP_BEFORE + CLIP_AFTER
           segments == get_recent_segments(clip_duration)
           l == [loc[t] EXCEPT !.segments = segments]
       IN  IF segments = <<>>
           THEN Return(t, l, "rej_empty")
           ELSE Goto(t, l, "create")
    /\ UNCHANGED <<ev, last_clip_time, clips_today, clip_date, made, clockVars, recorderVars, signalVars>>

\* ClipCreator.create_clip returns a path (TRUE) or None (FALSE): None without
\* running the muxer when there are no segments (line 241), the path when the
\* muxer exits 0 and the file exists (line 272), None when it fails, raises or
\* passes the 60 s timeout (lines 282-291).
MuxerEnds == {"ok", "fail", "timeout"}
create_clip(segments, end) == segments # <<>> /\ end = "ok"

\* Mutant of ClipCreated: the result of create_clip is not tested.
ClipCreatedAlways(clip_path) == TRUE

\* line 376: if clip_path
ClipCreated(clip_path) == clip_path

\* lines 373-376: the muxer run and the test of its result.  ClipCreator.clip_count
\* only numbers the file names and is left out.
on_trigger_create(t) ==
    /\ pc[t] = "create"
    /\ \E end \in MuxerEnds :
          LET segments == loc[t].segments
              clip_path == create_clip(segments, end)
              l == [loc[t] EXCEPT !.mux = IF segments = <<>> THEN "none" ELSE end,
                                  !.created = IF clip_path THEN now ELSE None]
          IN  /\ IF ClipCreated(clip_path)
                 THEN Goto(t, l, "set_time")
                 ELSE Return(t, l, "mux_fail")
              /\ made' = IF clip_path
                         THEN [made EXCEPT ![loc[t].today] = @ + 1]
                         ELSE made
    /\ UNCHANGED <<ev, last_clip_time, clips_today, clip_date, clockVars, recorderVars, signalVars>>

\* line 377
on_trigger_set_time(t) ==
    /\ pc[t] = "set_time"
    /\ last_clip_time' = now
    /\ Goto(t, loc[t], "inc_load")
    /\ UNCHANGED <<ev, clips_today, clip_date, made, clockVars, recorderVars, signalVars>>

\* line 378, self.clips_today += 1: the load ...
on_trigger_inc_load(t) ==
    /\ pc[t] = "inc_load"
    /\ Goto(t, [loc[t] EXCEPT !.tmp = clips_today], "inc_store")
    /\ UNCHANGED <<ev, last_clip_time, clips_today, clip_date, made, clockVars, recorderVars, signalVars>>

\* ... and the store; then the call returns (log_moment writes the database only)
on_trigger_inc_store(t) ==
    /\ pc[t] = "inc_store"
    /\ clips_today' = loc[t].tmp + 1
    /\ Return(t, loc[t], "clip")
    /\ UNCHANGED <<ev, last_clip_time, clip_date, made, clockVars, recorderVars, signalVars>>

on_trigger(t) ==
    \/ on_trigger_log(t)
    \/ on_trigger_roll(t)
    \/ on_trigger_quota(t)
    \/ on_trigger_cooldown(t)
    \/ on_trigger_segments(t)
    \/ on_trigger_create(t)
    \/ on_trigger_set_time(t)
    \/ on_trigger_inc_load(t)
    \/ on_trigger_inc_store(t)

Idle(t) == pc[t] = "idle"

(***************************************************************************)
(* SegmentRecorder: start(), the ffmpeg process and the monitor threads.   *)
(***************************************************************************)
RemoveAt(s, i) == [j \in 1..(Len(s) - 1) |-> IF j < i THEN s[j] ELSE s[j + 1]]

\* start(): running = True, the cleanup of line 93, then either the stream URL
\* and the ffmpeg process are obtained (a new process, numbering its chunks
\* from chunk_0000.ts, and a new monitor thread with last_count = 0) or running
\* is set back to False (lines 114-117, 141-146).  RealtimeClipper.run calls it
\* when the stream goes live and whenever is_recording() is false.
start(ok) ==
    /\ ~is_recording
    /\ starts < MaxStarts
    /\ starts' = starts + 1
    /\ files' = cleanup_old_segments(get_segments)
    /\ IF ok
       THEN /\ running' = TRUE
            /\ process' = "alive"
            /\ next_chunk' = 0
            /\ mon' = Append(mon, 0)
       ELSE /\ running' = FALSE
            /\ UNCHANGED <<process, next_chunk, mon>>
    /\ UNCHANGED polled

\* start() called while nothing else changes.
recorder_start(ok) == start(ok) /\ UNCHANGED <<actuatorVars, clockVars, signalVars>>

\* ffmpeg -f segment -y chunk_%04d.ts: the next chunk file is created, or
\* overwritten when a file of that number is left from an earlier process;
\* either way it becomes the newest file.
ffmpeg_write(limit) ==
    /\ process = "alive"
    /\ next_chunk < limit
    /\ files' = Append(SelectSeq(files, LAMBDA c : c # next_chunk), next_chunk)
    /\ next_chunk' = next_chunk + 1
    /\ polled' = FALSE
    /\ UNCHANGED <<running, process, mon, starts, actuatorVars, clockVars, signalVars>>

\* the ffmpeg process ends (the stream went offline, a network error)
ffmpeg_exit ==
    /\ process = "alive"
    /\ process' = "dead"
    /\ UNCHANGED <<files, running, next_chunk, mon, polled, starts, actuatorVars, clockVars, signalVars>>

\* line 166
NewSegments(current_count, last_count) == current_count > last_count

\* _monitor_segments: one pass of the loop of monitor thread i (lines 153-180).
\* no_segment_count only feeds a message and is left out.
monitor_poll(i) ==
    /\ i \in 1..Len(mon)
    /\ IF ~running
       THEN /\ mon' = RemoveAt(mon, i)
            /\ UNCHANGED <<files, running, polled>>
       ELSE IF process = "dead"
       THEN /\ running' = FALSE
            /\ mon' = RemoveAt(mon, i)
            /\ UNCHANGED <<files, polled>>
       ELSE LET segments == get_segments
                current_count == Len(segments)
            IN  /\ IF NewSegments(current_count, mon[i])
                   THEN /\ mon' = [mon EXCEPT ![i] = current_count]
                        /\ files' = IF current_count > SEGMENTS_TO_KEEP
                                    THEN cleanup_old_segments(segments)
                                    ELSE files
                   ELSE UNCHANGED <<mon, files>>
                /\ polled' = TRUE
                /\ UNCHANGED running
    /\ UNCHANGED <<process, next_chunk, starts, actuatorVars, clockVars, signalVars>>

(***************************************************************************)
(* Spec: the actuator with its events processed one at a time (a source    *)
(* fires only while no _on_trigger call is in progress), the clock free to *)
(* move at any point, midnight included, and the recorder writing its      *)
(* first segment files.                                                    *)
(***************************************************************************)
Quiescent == \A t \in Threads : Idle(t)

FireOneAtATime == \E t \in Threads : \E e \in EventsOf(t) : Quiescent /\ fire(t, e)

Handle == \E t \in Threads : on_trigger(t)

ClockMoves == \E d \in {1, CLIP_COOLDOWN - 1, ToMidnight} : Advance(d)

RecorderGoesLive == starts = 0 /\ recorder_start(TRUE)

FirstSegments == ffmpeg_write(MaxActuatorChunks)

Next ==
    \/ FireOneAtATime
    \/ Handle
    \/ ClockMoves
    \/ RecorderGoesLive
    \/ FirstSegments

Spec == Init /\ [][Next]_vars

(***************************************************************************)
(* SpecConc: the two source threads deliver their events concurrently, as  *)
(* RealtimeClipper.run sets them up (ViewerTrigger.start_threaded and      *)
(* ChatTrigger.start_threaded, both with callback=self._on_trigger, which  *)
(* takes no lock), within one calendar day.                                *)
(***************************************************************************)
ConcChatEvents == { Event("chat_velocity", 50, 0) }
ConcViewerEvents == { Event("viewer_spike", 100, 350) }

FireViewer == \E e \in ConcViewerEvents : fire("viewer", e)
FireChat == \E e \in ConcChatEvents : fire("chat", e)

ClockMovesWithinDay == \E d \in {1, CLIP_COOLDOWN - 1} : Advance(d)

NextConc ==
    \/ FireViewer
    \/ FireChat
    \/ Handle
    \/ ClockMovesWithinDay
    \/ RecorderGoesLive
    \/ FirstSegments

SpecConc == Init /\ [][NextConc]_vars

(***************************************************************************)
(* SpecLow: as SpecConc, with each of the two threads delivering a         *)
(* low-priority event.  (ViewerTrigger itself gives every viewer_spike     *)
(* confidence 1.0; line 350 of _on_trigger provides for a viewer_spike     *)
(* that is not high priority, and this is the caller it provides for.)     *)
(***************************************************************************)
LowViewerEvents == { Event("viewer_spike", 50, 250) }

FireViewerLow == \E e \in LowViewerEvents : fire("viewer", e)

NextLow ==
    \/ FireViewerLow
    \/ FireChat
    \/ Handle
    \/ ClockMovesWithinDay
    \/ RecorderGoesLive
    \/ FirstSegments

SpecLow == Init /\ [][NextLow]_vars

(***************************************************************************)
(* Properties of the actuator.                                             *)
(***************************************************************************)
Returned(t) == pc[t] = "idle" /\ res[t] # "none"

ComboTypes ==
    {"combo_chat_combo", "combo_hype_moment", "combo_clip_worthy", "combo_super_combo"}

\* Low priority by each of the three criteria of the specification:
\* confidence, type (a combo or hype_moment) and viewer_spike ratio.
LowPriority(e) ==
    /\ e.confidence < HIGH_PRIORITY_CONFIDENCE
    /\ e.type \notin ComboTypes \cup {"hype_moment"}
    /\ ~(e.type = "viewer_spike" /\ e.ratio >= 300)

\* C1: with events processed one at a time, clips_today never exceeds
\* MAX_CLIPS_PER_DAY and no day gets more than MAX_CLIPS_PER_DAY successful
\* muxer runs; a call that finds clips_today >= MAX_CLIPS_PER_DAY returns from
\* the limit check, whatever the event's priority and however long ago the
\* last clip was made, without running the muxer.
C1_DailyLimit ==
    /\ clips_today <= MAX_CLIPS_PER_DAY
    /\ \A d \in Days : made[d] <= MAX_CLIPS_PER_DAY
    /\ \A t \in Threads :
          /\ pc[t] \in {"cooldown", "segments", "create", "set_time", "inc_load", "inc_store"}
                => loc[t].quota < MAX_CLIPS_PER_DAY
          /\ (loc[t].quota # None /\ loc[t].quota >= MAX_CLIPS_PER_DAY)
                => /\ Returned(t)
                   /\ res[t] = "rej_quota"
                   /\ loc[t].mux = "none"
                   /\ loc[t].created = None

\* A high-priority event, arriving a day's limit of clips and a full cooldown
\* after the last clip, is rejected by the limit check.
C1_Witness ==
    \E t \in Threads :
        /\ Returned(t)
        /\ res[t] = "rej_quota"
        /\ is_high_priority(ev[t])
        /\ clips_today = MAX_CLIPS_PER_DAY
        /\ made[loc[t].today] = MAX_CLIPS_PER_DAY
        /\ now - last_clip_time >= CLIP_COOLDOWN

\* C2: a low-priority event that passes the limit check after an earlier clip
\* is rejected by the cooldown check when elapsed < CLIP_COOLDOWN (59 s), and
\* when elapsed >= CLIP_COOLDOWN (exactly 60 s) it is not: it makes a clip if
\* the buffer has segments and the muxer succeeds.
C2_CooldownBoundary ==
    \A t \in Threads :
        (Returned(t) /\ res[t] # "rej_quota" /\ LowPriority(ev[t]) /\ loc[t].hadPrev)
            => /\ loc[t].elapsed < CLIP_COOLDOWN => res[t] = "rej_cooldown"
               /\ loc[t].elapsed >= CLIP_COOLDOWN =>
                     /\ res[t] \in {"clip", "rej_empty", "mux_fail"}
                     /\ (loc[t].segments # <<>> /\ loc[t].mux = "ok") => res[t] = "clip"

\* A low-priority event is accepted exactly CLIP_COOLDOWN seconds after the
\* last clip.
C2_Witness ==
    \E t \in Threads :
        /\ Returned(t)
        /\ res[t] = "clip"
        /\ LowPriority(ev[t])
        /\ loc[t].hadPrev
        /\ loc[t].elapsed = CLIP_COOLDOWN

\* C3: no combo event (combo_chat_combo, combo_hype_moment, combo_clip_worthy,
\* combo_super_combo) is rejected by the cooldown check.
C3_ComboBypassesCooldown ==
    \A t \in Threads :
        (Returned(t) /\ ev[t].type \in ComboTypes) => res[t] # "rej_cooldown"

\* C4: when the muxer run of an accepted event fails or times out, the call
\* returns at once with last_clip_time and clips_today as they were.
C4_MuxerFailureKeepsState ==
    [][ \A t \in Threads :
          (pc[t] = "create" /\ pc'[t] # "create" /\ loc'[t].mux # "ok")
             => /\ pc'[t] = "idle"
                /\ res'[t] = "mux_fail"
                /\ last_clip_time' = last_clip_time
                /\ clips_today' = clips_today
                /\ made' = made ]_vars

\* The muxer timed out for an event accepted after an earlier clip, and the
\* earlier clip is still the only one counted.
C4_Witness ==
    \E t \in Threads :
        /\ Returned(t)
        /\ res[t] = "mux_fail"
        /\ loc[t].mux = "timeout"
        /\ loc[t].hadPrev
        /\ clips_today = 1
        /\ made[clip_date] = 1

\* C5: when an event has passed the limit and cooldown checks and the buffer
\* returns no segments, the call returns without running the muxer and
\* without changing last_clip_time or clips_today.
C5_EmptyBufferRejects ==
    [][ \A t \in Threads :
          (pc[t] = "segments" /\ pc'[t] # "segments"
              /\ get_recent_segments(CLIP_BEFORE + CLIP_AFTER) = <<>>)
             => /\ pc'[t] = "idle"
                /\ res'[t] = "rej_empty"
                /\ loc'[t].mux = "none"
                /\ last_clip_time' = last_clip_time
                /\ clips_today' = clips_today
                /\ made' = made ]_vars

\* An event was rejected for the empty buffer after passing both checks.
C5_Witness ==
    \E t \in Threads :
        /\ Returned(t)
        /\ res[t] = "rej_empty"
        /\ loc[t].quota < MAX_CLIPS_PER_DAY
        /\ loc[t].mux = "none"
        /\ files = <<>>

\* C8: once a call is past the daily roll, the day marker is the day the call
\* read and clips_today is the number of clips made on that day (0 for the
\* first event of a new day, never reset within a day); an event is rejected
\* by the limit check only when its own day has had MAX_CLIPS_PER_DAY clips.
C8_DailyRoll ==
    \A t \in Threads :
        /\ pc[t] \in {"quota", "cooldown", "segments", "create"}
              => /\ clip_date = loc[t].today
                 /\ clips_today = made[loc[t].today]
        /\ (Returned(t) /\ res[t] = "rej_quota")
              => made[loc[t].today] >= MAX_CLIPS_PER_DAY

\* The first event of day 1 makes a clip although day 0 ended at the limit.
C8_Witness ==
    \E t \in Threads :
        /\ Returned(t)
        /\ res[t] = "clip"
        /\ loc[t].today = 1
        /\ loc[t].quota = 0
        /\ made[0] = MAX_CLIPS_PER_DAY

\* C9: every event a source has fired is in the callback, and is logged by
\* the callback's first step: whatever the limit, cooldown and buffer checks
\* decide afterwards, the event has been logged.
C9_LoggedFirst ==
    \A t \in Threads :
        /\ (ev[t] # NoEvent) => (pc[t] = "log" \/ loc[t].logged)
        /\ (pc[t] \notin {"idle", "log"} \/ res[t] # "none") => loc[t].logged

\* A keyword event refused by the cooldown check has been logged.
C9_Witness ==
    \E t \in Threads :
        /\ Returned(t)
        /\ res[t] = "rej_cooldown"
        /\ ev[t].type = "keyword"
        /\ loc[t].logged

C7_LimitUnderConcurrency ==
    /\ \A d \in Days : made[d] <= MAX_CLIPS_PER_DAY
    /\ Quiescent => clips_today = made[clip_date]

(***************************************************************************)
(* SpecRec: the recorder: start() and restarts, the ffmpeg process writing *)
(* segment files and ending, and the monitor threads polling.              *)
(***************************************************************************)
RecorderStarts == \E ok \in BOOLEAN : recorder_start(ok)

FfmpegWrites == ffmpeg_write(MaxChunks)

MonitorPolls == \E i \in 1..Len(mon) : monitor_poll(i)

NextRec ==
    \/ RecorderStarts
    \/ FfmpegWrites
    \/ ffmpeg_exit
    \/ MonitorPolls

SpecRec == Init /\ [][NextRec]_vars

\* C10: the rolling buffer never holds more than SEGMENTS_TO_KEEP segments.
\* Stated for the states in which a monitor has polled since ffmpeg last wrote
\* a file: between a write and the next poll the directory holds the new file
\* as well.
C10_BufferWithinCapacity == polled => Len(files) <= SEGMENTS_TO_KEEP

(***************************************************************************)
(* SpecBuf: one recording whose buffer is read by get_recent_segments, as  *)
(* _on_trigger reads it (CLIP_BEFORE + CLIP_AFTER seconds) and with the    *)
(* method's default of 60 seconds and with 40 seconds.                     *)
(***************************************************************************)
MaxLookupChunks == 7     \* segment files written while the lookup is studied

LookupSeconds == {CLIP_BEFORE + CLIP_AFTER, 40, 60}

\* A call of SegmentRecorder.get_recent_segments(seconds); the directory
\* listing it read and the list it returned are kept.
recent_segments(seconds) ==
    /\ lookup' = [segments |-> get_recent_segments(seconds),
                  seconds |-> seconds,
                  buffer |-> get_segments]
    /\ UNCHANGED <<actuatorVars, recorderVars, clockVars, chatVars, viewerVars,
                   answer, combo, calls, orchVars, sideVars>>

RecentSegments == \E seconds \in LookupSeconds : recent_segments(seconds)

SegmentsArrive == ffmpeg_write(MaxLookupChunks)

NextBuf ==
    \/ RecorderGoesLive
    \/ SegmentsArrive
    \/ MonitorPolls
    \/ RecentSegments

SpecBuf == Init /\ [][NextBuf]_vars

Ceil(a, b) == (a + b - 1) \div b

\* C11: get_recent_segments(seconds) returns, oldest first, the last
\* ceil(seconds / SEGMENT_DURATION) + 1 segments of the buffer, or the whole
\* buffer when it holds fewer (the empty list when it is empty), also when
\* seconds is not a multiple of SEGMENT_DURATION.
C11_RecentCovering ==
    lookup.seconds # None =>
        LET n == Ceil(lookup.seconds, SEGMENT_DURATION) + 1
        IN  /\ lookup.segments = LastN(lookup.buffer, n)
            /\ Len(lookup.segments) =
                  (IF Len(lookup.buffer) < n THEN Len(lookup.buffer) ELSE n)

(***************************************************************************)
(* The chat source: ChatTrigger._process_chat_message with its             *)
(* DynamicBaseline, ExcitementDetector and ComboTrigger                    *)
(* (src/src/realtime/triggers).                                            *)
(*                                                                         *)
(* A velocity is in tenths of a message per second: with                   *)
(* CHAT_WINDOW_SECONDS = 10, len(message_times) / CHAT_WINDOW_SECONDS is   *)
(* the number of messages in the window, in tenths.  A confidence is in    *)
(* hundredths, rounded down where the code leaves a quotient unrounded     *)
(* (_on_trigger compares a confidence only with 0.9).                      *)
(***************************************************************************)
CHAT_VELOCITY_THRESHOLD == 150
CHAT_WINDOW_SECONDS == 10
BASELINE_WINDOW_MINUTES == 5
COMBO_WINDOW_SECONDS == 10

\* settings.py sets KEYWORD_THRESHOLD = 8; the model runs the chat source with
\* a threshold of 2 mentions, so that a keyword event takes few messages.
KEYWORD_THRESHOLD == 2

MaxMessages == 4     \* chat messages in one run
MaxCalls == 5        \* calls made to a component studied alone

\* CLIP_KEYWORDS, in the order of the list (two of its eight entries).
CLIP_KEYWORDS == <<"CLIP IT", "SOMEONE CLIP">>

\* Chat messages, as far as the handler reads them: the keywords of
\* CLIP_KEYWORDS, the emotes of EXCITEMENT_EMOTES and the phrases of
\* EXCITEMENT_PHRASES found in the upper-cased content ("CLIP IT" is a
\* keyword and a phrase; "SOMEONE CLIP" is a keyword only).
Message(text, keywords, emotes, phrases) ==
    [text |-> text, keywords |-> keywords, emotes |-> emotes, phrases |-> phrases]

Contents ==
    { Message("hello", {}, {}, {}),
      Message("CLIP IT", {"CLIP IT"}, {}, {"CLIP IT"}),
      Message("SOMEONE CLIP", {"SOMEONE CLIP"}, {}, {}),
      Message("KEKW", {}, {"KEKW"}, {}) }

Min(a, b) == IF a <= b THEN a ELSE b

RECURSIVE Sum(_)
Sum(s) == IF s = <<>> THEN 0 ELSE Head(s) + Sum(Tail(s))

\* Mutant of Expired: an entry exactly as old as the window is dropped too.
ExpiredInclusive(timestamp, cutoff) == timestamp <= cutoff

\* The loops `while window and window[0] < cutoff: window.popleft()`.
Expired(timestamp, cutoff) == timestamp < cutoff

RECURSIVE PopMessages(_, _)
PopMessages(times, cutoff) ==
    IF times # <<>> /\ Expired(Head(times), cutoff)
    THEN PopMessages(Tail(times), cutoff) ELSE times

RECURSIVE PopSamples(_, _)
PopSamples(smp, cutoff) ==
    IF smp # <<>> /\ Expired(Head(smp).t, cutoff)
    THEN PopSamples(Tail(smp), cutoff) ELSE smp

RECURSIVE clean_old_events(_, _)
clean_old_events(evts, t) ==
    IF evts # <<>> /\ Expired(Head(evts).t, t - COMBO_WINDOW_SECONDS)
    THEN clean_old_events(Tail(evts), t) ELSE evts

(***************************************************************************)
(* DynamicBaseline                                                         *)
(***************************************************************************)
window_duration_seconds == BASELINE_WINDOW_MINUTES * 60

\* add_sample(velocity) at time t.
add_sample(smp, velocity, t) ==
    PopSamples(Append(smp, [t |-> t, v |-> velocity]), t - window_duration_seconds)

Velocities(smp) == [i \in 1..Len(smp) |-> smp[i].v]

\* velocity > get_threshold(), for the velocities get_threshold reads:
\* 0.0 when there are fewer than 2, else mean + 2 * stdev (the sample standard
\* deviation).  With n velocities of sum S, x > mean + 2 * stdev exactly when
\* n*x - S > 0 and (n*x - S)^2 * (n-1) > 4 * Sum((n*v - S)^2).
Exceeds(x, velocities) ==
    LET n == Len(velocities)
        S == Sum(velocities)
        D == n * x - S
        Q == Sum([i \in 1..n |-> (n * velocities[i] - S) * (n * velocities[i] - S)])
    IN  IF n < 2 THEN x > 0
        ELSE D > 0 /\ D * D * (n - 1) > 4 * Q

\* is_spike(velocity)
is_spike(smp, velocity) == Exceeds(velocity, Velocities(smp))

(***************************************************************************)
(* ExcitementDetector                                                      *)
(***************************************************************************)
calculate_score(has_emote, has_phrase, emote_count, phrase_count) ==
    Min((IF has_emote THEN 30 + Min(emote_count - 1, 2) * 10 ELSE 0)
        + (IF has_phrase THEN 40 + Min(phrase_count - 1, 2) * 10 ELSE 0), 100)

\* check_message(content)["excitement_score"]
excitement_score(content) ==
    calculate_score(content.emotes # {}, content.phrases # {},
                    Cardinality(content.emotes), Cardinality(content.phrases))

\* detect_emote_flood(messages, window_seconds); the messages carry no
\* timestamp, so none is left out.
detect_emote_flood(messages) ==
    IF Len(messages) < 5 THEN FALSE
    ELSE \E emote \in UNION { messages[i].emotes : i \in 1..Len(messages) } :
            Cardinality({ i \in 1..Len(messages) : emote \in messages[i].emotes }) >= 5

(***************************************************************************)
(* ComboTrigger                                                            *)
(***************************************************************************)
\* COMBOS, in the order of the dictionary; super_combo is tested first.
COMBOS ==
    << [name |-> "chat_combo", triggers |-> {"chat_velocity", "keyword"}, confidence_boost |-> 15],
       [name |-> "hype_moment", triggers |-> {"viewer_spike", "chat_velocity"}, confidence_boost |-> 20],
       [name |-> "clip_worthy", triggers |-> {"keyword", "emote_flood"}, confidence_boost |-> 15] >>

SUPER_COMBO == [name |-> "super_combo", triggers |-> 3, confidence_boost |-> 30]

NoCombo == [confidence |-> 0, triggers |-> {}, combo_type |-> "none", event_count |-> 0]

\* record_event(trigger_type, timestamp), called at time t.
record_event(evts, trigger_type, timestamp, t) ==
    clean_old_events(Append(evts, [t |-> timestamp, type |-> trigger_type]), t)

TypesIn(evts) == { evts[i].type : i \in 1..Len(evts) }

Occurrences(evts, type) == Cardinality({ i \in 1..Len(evts) : evts[i].type = type })

\* sum(min(count / 3.0, 1.0) for count in counts.values()), in thirds.
RECURSIVE CappedCounts(_, _)
CappedCounts(evts, types) ==
    IF types = {} THEN 0
    ELSE LET type == CHOOSE x \in types : TRUE
         IN  Min(Occurrences(evts, type), 3) + CappedCounts(evts, types \ {type})

\* Mutant of PairConfidence: the sum is not capped at 1.0.
PairConfidenceUncapped(evts, c) ==
    LET k == Cardinality(c.triggers)
        total == 100 * CappedCounts(evts, c.triggers) + 3 * k * c.confidence_boost
    IN  (2 * total + 3 * k) \div (6 * k)

\* round(min(base_confidence + confidence_boost, 1.0), 2), in hundredths, for
\* the combo c: base_confidence is CappedCounts / (3 * len(counts)), and no
\* value it takes lies halfway between two hundredths.
PairConfidence(evts, c) ==
    LET k == Cardinality(c.triggers)
        total == Min(100 * CappedCounts(evts, c.triggers) + 3 * k * c.confidence_boost,
                     300 * k)
    IN  (2 * total + 3 * k) \div (6 * k)

\* The first two-trigger combo of COMBOS, from position i on, whose triggers
\* are all in the window.
RECURSIVE first_pair(_, _)
first_pair(evts, i) ==
    IF i > Len(COMBOS) THEN NoCombo
    ELSE IF COMBOS[i].triggers \subseteq TypesIn(evts)
         THEN [confidence |-> PairConfidence(evts, COMBOS[i]),
               triggers |-> TypesIn(evts),
               combo_type |-> COMBOS[i].name,
               event_count |-> Len(evts)]
         ELSE first_pair(evts, i + 1)

\* check_combo(), on the window as _clean_old_events left it.
check_combo(evts) ==
    IF evts = <<>> THEN NoCombo
    ELSE IF Cardinality(TypesIn(evts)) >= SUPER_COMBO.triggers
         THEN [confidence |-> Min(100 + SUPER_COMBO.confidence_boost, 100),
               triggers |-> TypesIn(evts),
               combo_type |-> "super_combo",
               event_count |-> Len(evts)]
         ELSE first_pair(evts, 1)

\* f"combo_{combo['combo_type']}"
ComboEventType(combo_type) ==
    CASE combo_type = "chat_combo" -> "combo_chat_combo"
      [] combo_type = "hype_moment" -> "combo_hype_moment"
      [] combo_type = "clip_worthy" -> "combo_clip_worthy"
      [] combo_type = "super_combo" -> "combo_super_combo"

(***************************************************************************)
(* ChatTrigger._process_chat_message                                       *)
(***************************************************************************)
\* len(self.message_times) / CHAT_WINDOW_SECONDS, in tenths.
Velocity(count) == (count * 10) \div CHAT_WINDOW_SECONDS

\* The confidence of a chat_velocity event (line 175), for a velocity that was
\* found to be a spike.  get_threshold() is 0.0, hence false, with fewer than
\* 2 samples; when it is at least CHAT_VELOCITY_THRESHOLD the velocity, being
\* above it, gives min(velocity / threshold, 1.0) = 1.0; below, the divisor is
\* CHAT_VELOCITY_THRESHOLD.
velocity_confidence(smp, velocity) ==
    IF /\ dynamic_baseline
       /\ Len(smp) >= 2
       /\ ~Exceeds(CHAT_VELOCITY_THRESHOLD, Velocities(smp))
    THEN 100
    ELSE Min((velocity * 100) \div CHAT_VELOCITY_THRESHOLD, 100)

\* What one run of the handler has done so far: the events fired, the combo
\* window, the record_event calls, the keyword counts and the keywords that
\* fired.
\* self.fire(event) followed by self.combo_trigger.record_event(type, now).
FireAndRecord(st, e, t) ==
    [st EXCEPT !.out = Append(@, e),
               !.evts = record_event(@, e.type, t, t),
               !.rec = Append(@, [t |-> t, type |-> e.type])]

SetCount(counts, keyword, n) ==
    [k \in DOMAIN counts \cup {keyword} |-> IF k = keyword THEN n ELSE counts[k]]

\* Mutant of after_trigger: the count stays where it was.
after_trigger_keeps_count(counts, keyword, n) == SetCount(counts, keyword, n)

\* self.keyword_counts[keyword] = 0 (line 203), after a count of n fired.
after_trigger(counts, keyword, n) == SetCount(counts, keyword, 0)

\* for keyword in CLIP_KEYWORDS: ... (lines 184-203), from position i on.
RECURSIVE keyword_loop(_, _, _, _)
keyword_loop(i, content, st, t) ==
    IF i > Len(CLIP_KEYWORDS) THEN st
    ELSE LET keyword == CLIP_KEYWORDS[i]
             n == (IF keyword \in DOMAIN st.counts THEN st.counts[keyword] ELSE 0) + 1
         IN  IF keyword \notin content.keywords THEN keyword_loop(i + 1, content, st, t)
             ELSE IF n >= KEYWORD_THRESHOLD
                  THEN keyword_loop(i + 1, content,
                          [FireAndRecord(st, Event("keyword",
                                                   Min(100, 50 + excitement_score(content)), 0), t)
                              EXCEPT !.counts = after_trigger(st.counts, keyword, n),
                                     !.kw = @ \cup {keyword}], t)
                  ELSE keyword_loop(i + 1, content,
                          [st EXCEPT !.counts = SetCount(st.counts, keyword, n)], t)

\* Mutant of fire_combo: the combo event is recorded in the combo window like
\* the events of the source.
fire_combo_recorded(st, found, t) ==
    FireAndRecord(st, Event(ComboEventType(found.combo_type), found.confidence, 0), t)

\* self.fire(combo_event) (lines 222-229): the combo event goes to the
\* callback only.
fire_combo(st, found, t) ==
    [st EXCEPT !.out = Append(@, Event(ComboEventType(found.combo_type), found.confidence, 0))]

\* _process_chat_message(data), for a message with the given content, at the
\* time now.  fire() hands each event to the callback (_on_trigger, above).
process_chat_message(content) ==
    LET t == now
        times == PopMessages(Append(message_times, t), t - CHAT_WINDOW_SECONDS)
        velocity == Velocity(Len(times))
        smp == IF dynamic_baseline THEN add_sample(samples, velocity, t) ELSE samples
        spike == IF dynamic_baseline THEN is_spike(smp, velocity)
                 ELSE velocity >= CHAT_VELOCITY_THRESHOLD
        st0 == [evts |-> events,
                out |-> <<>>,
                rec |-> recorded,
                counts |-> keyword_counts,
                kw |-> {}]
        st1 == IF spike
               THEN FireAndRecord(st0, Event("chat_velocity",
                                             velocity_confidence(smp, velocity), 0), t)
               ELSE st0
        st2 == keyword_loop(1, content, st1, t)
        st3 == IF detect_emote_flood(<<content>>)
               THEN FireAndRecord(st2, Event("emote_flood", excitement_score(content), 0), t)
               ELSE st2
        window == clean_old_events(st3.evts, t)
        found == check_combo(window)
        st4 == IF found # NoCombo
               THEN fire_combo([st3 EXCEPT !.evts = window], found, t)
               ELSE [st3 EXCEPT !.evts = window]
    IN  /\ message_times' = times
        /\ samples' = smp
        /\ events' = st4.evts
        /\ recorded' = st4.rec
        /\ emitted' = st4.out
        /\ keyword_counts' = (IF Len(times) = 1 THEN [k \in {} |-> 0] ELSE st3.counts)
        /\ sent' = Append(sent, t)
        /\ keyword_log' = Append(keyword_log, [contains |-> content.keywords, fired |-> st4.kw])
        /\ UNCHANGED <<actuatorVars, recorderVars, clockVars, queryVars, viewerVars,
                       dynamic_baseline, orchVars, sideVars>>

(***************************************************************************)
(* SpecChat: the chat source receives messages while time passes.          *)
(***************************************************************************)
ChatMessage ==
    /\ Len(sent) < MaxMessages
    /\ \E content \in Contents : process_chat_message(content)

ChatClock ==
    \E d \in {1, CHAT_WINDOW_SECONDS, window_duration_seconds - CHAT_WINDOW_SECONDS} :
        Advance(d)

NextChat ==
    \/ ChatMessage
    \/ ChatClock

SpecChat == Init /\ [][NextChat]_vars

(***************************************************************************)
(* Properties of the chat source.                                          *)
(***************************************************************************)
HasType(out, type) == \E i \in 1..Len(out) : out[i].type = type

\* velocity = get_threshold() exactly, for the velocities get_threshold reads.
EqualsThreshold(x, velocities) ==
    LET n == Len(velocities)
        S == Sum(velocities)
        D == n * x - S
        Q == Sum([i \in 1..n |-> (n * velocities[i] - S) * (n * velocities[i] - S)])
    IN  n >= 2 /\ D >= 0 /\ D * D * (n - 1) = 4 * Q

\* C12: is_spike is false while the baseline holds fewer than 2 samples, and
\* false for a velocity equal to the threshold; so the message whose sample
\* leaves the baseline with fewer than 2 samples (the first message), and a
\* message whose velocity equals the threshold, fire no chat_velocity event.
C12_NoSpikeWithoutBaseline ==
    sent # <<>> =>
        /\ Len(samples) < 2 => ~HasType(emitted, "chat_velocity")
        /\ EqualsThreshold(samples[Len(samples)].v, Velocities(samples))
              => ~HasType(emitted, "chat_velocity")

(***************************************************************************)
(* SpecBaseline: a DynamicBaseline on its own: add_sample and is_spike     *)
(* calls while time passes.                                                *)
(***************************************************************************)
SampleVelocities == {1, 5}

\* A call of add_sample(velocity).
baseline_add_sample(velocity) ==
    /\ calls < MaxCalls
    /\ calls' = calls + 1
    /\ samples' = add_sample(samples, velocity, now)
    /\ UNCHANGED <<actuatorVars, recorderVars, clockVars, viewerVars, lookup, answer, combo,
                   message_times, keyword_counts, dynamic_baseline, events, emitted, sent,
                   recorded, keyword_log, orchVars, sideVars>>

\* A call of is_spike(velocity); the samples get_threshold read and the
\* result are kept.
baseline_is_spike(velocity) ==
    /\ calls < MaxCalls
    /\ calls' = calls + 1
    /\ answer' = [at |-> now, velocity |-> velocity, used |-> samples,
                  spike |-> is_spike(samples, velocity)]
    /\ UNCHANGED <<actuatorVars, recorderVars, clockVars, viewerVars, lookup, combo,
                   chatVars, orchVars, sideVars>>

AddSample == \E velocity \in SampleVelocities : baseline_add_sample(velocity)

IsSpike == \E velocity \in SampleVelocities : baseline_is_spike(velocity)

BaselineClock ==
    \E d \in {1, window_duration_seconds, window_duration_seconds + 1} : Advance(d)

NextBaseline ==
    \/ AddSample
    \/ IsSpike
    \/ BaselineClock

SpecBaseline == Init /\ [][NextBaseline]_vars

\* C13: whenever is_spike (get_threshold) is called, every sample its mean and
\* standard deviation are computed from is at most window_duration_seconds old
\* at that moment, also when no add_sample was called since a sample expired.
C13_ThresholdFromWindowOnly ==
    answer.at # None =>
        \A i \in 1..Len(answer.used) :
            answer.at - answer.used[i].t <= window_duration_seconds

\* The time of the last chat message: the three windows of the chat source
\* were last pruned then.
LastPrune == sent[Len(sent)]

Timestamps(smp) == [i \in 1..Len(smp) |-> smp[i].t]

\* C14, as claimed: after a prune at time T a window of duration d holds
\* exactly the entries with timestamp > T - d, so that an entry exactly d old
\* is not counted (the message-time window, the DynamicBaseline window and
\* the combo window).
C14_WindowStrict ==
    sent # <<>> =>
        /\ message_times =
              SelectSeq(sent, LAMBDA t : t > LastPrune - CHAT_WINDOW_SECONDS)
        /\ Timestamps(samples) =
              SelectSeq(sent, LAMBDA t : t > LastPrune - window_duration_seconds)
        /\ events =
              SelectSeq(recorded, LAMBDA e : e.t > LastPrune - COMBO_WINDOW_SECONDS)

\* C14, amended: after a prune at time T a window of duration d holds exactly
\* the entries with timestamp >= T - d: an entry exactly d old is still
\* counted, an older one is not.
C14_WindowInclusive ==
    sent # <<>> =>
        /\ message_times =
              SelectSeq(sent, LAMBDA t : t >= LastPrune - CHAT_WINDOW_SECONDS)
        /\ Timestamps(samples) =
              SelectSeq(sent, LAMBDA t : t >= LastPrune - window_duration_seconds)
        /\ events =
              SelectSeq(recorded, LAMBDA e : e.t >= LastPrune - COMBO_WINDOW_SECONDS)

\* Right after a message, the message window holds a message exactly
\* CHAT_WINDOW_SECONDS old and the baseline a sample exactly
\* window_duration_seconds old.
C14_Witness ==
    /\ sent # <<>>
    /\ now = LastPrune
    /\ Len(message_times) >= 2
    /\ message_times[1] = now - CHAT_WINDOW_SECONDS
    /\ Len(samples) >= 2
    /\ samples[1].t = now - window_duration_seconds

(***************************************************************************)
(* SpecCombo: a ComboTrigger on its own: record_event calls for the four   *)
(* trigger types its docstring names, and check_combo calls, while time    *)
(* passes.                                                                 *)
(***************************************************************************)
TriggerTypes == {"chat_velocity", "keyword", "viewer_spike", "emote_flood"}

\* A call of record_event(trigger_type), with the default timestamp.  (The
\* result kept of the last check_combo call is dropped.)
combo_record_event(trigger_type) ==
    /\ calls < MaxCalls
    /\ calls' = calls + 1
    /\ events' = record_event(events, trigger_type, now, now)
    /\ combo' = NoCheck
    /\ UNCHANGED <<actuatorVars, recorderVars, clockVars, viewerVars, lookup, answer,
                   message_times, keyword_counts, samples, dynamic_baseline, emitted, sent,
                   recorded, keyword_log, orchVars, sideVars>>

\* Mutant of combo_check_combo: the two-trigger combos are tried before
\* super_combo.
combo_check_pairs_first ==
    LET window == clean_old_events(events, now)
        pair == first_pair(window, 1)
    IN  /\ events' = window
        /\ combo' = [result |-> IF window # <<>> /\ pair # NoCombo THEN pair
                                ELSE check_combo(window),
                     checked |-> TRUE,
                     window |-> window]
        /\ UNCHANGED <<actuatorVars, recorderVars, clockVars, viewerVars, lookup, answer, calls,
                       message_times, keyword_counts, samples, dynamic_baseline, emitted, sent,
                   recorded, keyword_log, orchVars, sideVars>>

\* A call of check_combo(); the window it evaluated and the result are kept.
combo_check_combo ==
    LET window == clean_old_events(events, now)
    IN  /\ events' = window
        /\ combo' = [result |-> check_combo(window), checked |-> TRUE, window |-> window]
        /\ UNCHANGED <<actuatorVars, recorderVars, clockVars, viewerVars, lookup, answer, calls,
                       message_times, keyword_counts, samples, dynamic_baseline, emitted, sent,
                   recorded, keyword_log, orchVars, sideVars>>

RecordEvent == \E trigger_type \in TriggerTypes : combo_record_event(trigger_type)

ComboClock == \E d \in {1, COMBO_WINDOW_SECONDS + 1} : Advance(d)

NextCombo ==
    \/ RecordEvent
    \/ combo_check_combo
    \/ ComboClock

SpecCombo == Init /\ [][NextCombo]_vars

PairCombos == {"chat_combo", "hype_moment", "clip_worthy"}

\* C15: when the window check_combo evaluates holds 3 or more distinct
\* trigger types the result is super_combo, also when the pair of a
\* two-trigger combo is among them; a two-trigger combo is the result only
\* with fewer than 3 distinct types; the result is one combo or none.
C15_SuperComboFirst ==
    combo.checked =>
        /\ Cardinality(TypesIn(combo.window)) >= 3 => combo.result.combo_type = "super_combo"
        /\ combo.result.combo_type \in PairCombos => Cardinality(TypesIn(combo.window)) < 3
        /\ combo.result.combo_type \in PairCombos \cup {"super_combo", "none"}

\* check_combo returned super_combo for a window that holds the pair of
\* chat_combo and a third type.
C15_Witness ==
    /\ combo.checked
    /\ {"chat_velocity", "keyword"} \subseteq TypesIn(combo.window)
    /\ Cardinality(TypesIn(combo.window)) = 3
    /\ combo.result.combo_type = "super_combo"

\* The window check_combo evaluated holds exactly viewer_spike and
\* chat_velocity.
HypeWindow == combo.checked /\ TypesIn(combo.window) = {"viewer_spike", "chat_velocity"}

\* The average over viewer_spike and chat_velocity of min(occurrences / 3, 1.0),
\* plus 0.20, capped at 1.0, in six-hundredths.
HypeConfidence600 ==
    Min(100 * (Min(Occurrences(combo.window, "viewer_spike"), 3)
               + Min(Occurrences(combo.window, "chat_velocity"), 3)) + 120, 600)

\* C16, as claimed: for a window of exactly viewer_spike and chat_velocity,
\* check_combo returns hype_moment with confidence equal to the average of
\* min(occurrences / 3, 1.0) over the two types plus 0.20, capped at 1.0, hence
\* within [0.20, 1.0].
C16_HypeMomentExact ==
    HypeWindow =>
        /\ combo.result.combo_type = "hype_moment"
        /\ 6 * combo.result.confidence = HypeConfidence600
        /\ combo.result.confidence >= 20
        /\ combo.result.confidence <= 100

\* C16, amended: the confidence is that value rounded to two decimals (it
\* differs from it by at most 0.005), hence within [0.20, 1.0].
C16_HypeMomentRounded ==
    HypeWindow =>
        /\ combo.result.combo_type = "hype_moment"
        /\ 6 * combo.result.confidence - HypeConfidence600 <= 3
        /\ HypeConfidence600 - 6 * combo.result.confidence <= 3
        /\ combo.result.confidence >= 20
        /\ combo.result.confidence <= 100

\* hype_moment was returned with the confidence capped at 1.0, for three
\* viewer_spike events and two chat_velocity events.
C16_Witness ==
    /\ HypeWindow
    /\ Occurrences(combo.window, "viewer_spike") = 3
    /\ Occurrences(combo.window, "chat_velocity") = 2
    /\ combo.result.combo_type = "hype_moment"
    /\ combo.result.confidence = 100

SourceEvents(out) == SelectSeq(out, LAMBDA e : e.type \notin ComboTypes)

\* C17: the handling of a chat message, also one that fires a combo event,
\* leaves in the combo window the entries it held that have not expired,
\* followed by one entry for each event of the source fired for this message;
\* the combo event adds none, and no entry has a combo_* type.
C17_ComboNotFedBack ==
    [][ sent' # sent =>
          /\ \A i \in 1..Len(events') : events'[i].type \notin ComboTypes
          /\ Len(recorded') = Len(recorded) + Len(SourceEvents(emitted'))
          /\ events' = clean_old_events(
                           events \o SubSeq(recorded', Len(recorded) + 1, Len(recorded')), now)
      ]_vars

\* A message fired chat_velocity, keyword and combo_chat_combo, and the
\* window holds the first two only.
C17_Witness ==
    /\ Len(emitted) = 3
    /\ emitted[3].type = "combo_chat_combo"
    /\ Len(events) = 2
    /\ TypesIn(events) = {"chat_velocity", "keyword"}

(***************************************************************************)
(* The viewer source: the polling loop of ViewerTrigger.start              *)
(* (src/src/realtime/triggers/viewer_trigger.py).  A ratio is in           *)
(* hundredths.                                                             *)
(***************************************************************************)
SPIKE_THRESHOLD == 300
POLL_INTERVAL == 10
BASELINE_WINDOW == 60
COOLDOWN_AFTER_SPIKE == 30

MaxPolls == 5        \* iterations of the viewer loop in one run

\* deque(maxlen=int(BASELINE_WINDOW / POLL_INTERVAL))
viewer_maxlen == BASELINE_WINDOW \div POLL_INTERVAL

\* What get_stream_data() returns: None (the request failed), or the channel
\* with its chatroom id and, when live, the livestream's viewer_count.
StreamData(is_live_, viewer_count) ==
    [is_live |-> is_live_, ok |-> TRUE, viewer_count |-> viewer_count, chatroom |-> 1]

NoData == [is_live |-> FALSE, ok |-> FALSE, viewer_count |-> 0, chatroom |-> None]

ViewerCounts == {0, 100, 900, 4500}

Responses == {NoData, StreamData(FALSE, 0)} \cup { StreamData(TRUE, v) : v \in ViewerCounts }

\* deque.append on a deque with the given maxlen.
DequeAppend(h, x, maxlen) ==
    IF Len(h) >= maxlen THEN Append(Tail(h), x) ELSE Append(h, x)

\* for _ in range(k): self.viewer_history.append(viewers)
RECURSIVE Refill(_, _, _, _)
Refill(h, viewers, k, maxlen) ==
    IF k = 0 THEN h ELSE Refill(DequeAppend(h, viewers, maxlen), viewers, k - 1, maxlen)

\* Mutant of IsViewerSpike: a ratio of 2.0 is a spike.
IsViewerSpikeAtTwice(viewers, h) ==
    Sum(h) > 0 /\ viewers * Len(h) * 100 >= 200 * Sum(h)

\* ratio >= SPIKE_THRESHOLD for ratio = viewers / baseline and
\* baseline = sum(history) / len(history) > 0.
IsViewerSpike(viewers, h) ==
    Sum(h) > 0 /\ viewers * Len(h) * 100 >= SPIKE_THRESHOLD * Sum(h)

\* Mutant of viewer_spike: the confidence is ratio / SPIKE_THRESHOLD.
viewer_spike_uncapped(viewers, h) ==
    Event("viewer_spike",
          (viewers * Len(h) * 100 * 100) \div (SPIKE_THRESHOLD * Sum(h)),
          (2 * 100 * viewers * Len(h) + Sum(h)) \div (2 * Sum(h)))

\* The viewer_spike event (lines 115-124): ratio rounded to two decimals,
\* confidence min(ratio / SPIKE_THRESHOLD, 1.0).
viewer_spike(viewers, h) ==
    Event("viewer_spike",
          Min((viewers * Len(h) * 100 * 100) \div (SPIKE_THRESHOLD * Sum(h)), 100),
          (2 * 100 * viewers * Len(h) + Sum(h)) \div (2 * Sum(h)))

\* The stream is not live (lines 92-98): the window is cleared.
viewer_offline_keeps_window ==
    /\ viewer_out' = NoEvent
    /\ UNCHANGED <<viewer_history, spikes>>

viewer_offline ==
    /\ viewer_history' = <<>>
    /\ viewer_out' = NoEvent
    /\ UNCHANGED spikes

\* One iteration of the loop of start(), with the deque's maxlen and the
\* answer of get_stream_data(); it ends in time.sleep(POLL_INTERVAL).
\* fire() hands the event to the callback (_on_trigger, above).
viewer_loop(maxlen, data) ==
    LET viewers == data.viewer_count
        h == DequeAppend(viewer_history, viewers, maxlen)
        spike == IsViewerSpike(viewers, h)
    IN  /\ polls < MaxPolls
        /\ now >= next_poll
        /\ polls' = polls + 1
        /\ next_poll' = now + POLL_INTERVAL
        /\ stream_data' = Append(stream_data, data)
        /\ IF ~data.ok
           THEN /\ viewer_out' = NoEvent
                /\ UNCHANGED <<viewer_history, is_live, chatroom_id, spikes>>
           ELSE /\ chatroom_id' = (IF chatroom_id = None THEN data.chatroom ELSE chatroom_id)
                /\ is_live' = data.is_live
                /\ IF ~data.is_live
                   THEN viewer_offline
                   ELSE IF spike
                        THEN /\ viewer_out' = viewer_spike(viewers, h)
                             /\ spikes' = Append(spikes, [t |-> now, viewer_count |-> viewers])
                             /\ viewer_history' = Refill(h, viewers, Len(h), maxlen)
                        ELSE /\ viewer_out' = NoEvent
                             /\ viewer_history' = h
                             /\ UNCHANGED spikes

\* An iteration of the loop while nothing else changes.
viewer_poll(maxlen, data) ==
    /\ viewer_loop(maxlen, data)
    /\ UNCHANGED <<actuatorVars, recorderVars, clockVars, chatVars, queryVars, orchVars, sideVars>>

\* time.sleep(POLL_INTERVAL) returns.
viewer_sleep ==
    /\ now < next_poll
    /\ now' = next_poll
    /\ UNCHANGED <<advances, actuatorVars, recorderVars, chatVars, queryVars, viewerVars, orchVars, sideVars>>

(***************************************************************************)
(* SpecViewer: the viewer source polls every POLL_INTERVAL seconds.        *)
(***************************************************************************)
ViewerPolls == \E data \in Responses : viewer_poll(viewer_maxlen, data)

NextViewer ==
    \/ ViewerPolls
    \/ viewer_sleep

SpecViewer == Init /\ [][NextViewer]_vars

(***************************************************************************)
(* Properties of the viewer source.                                        *)
(***************************************************************************)
\* C19: two viewer_spike events of the viewer source are never less than
\* COOLDOWN_AFTER_SPIKE seconds apart, whatever the viewer counts.
C19_SpikeCooldown ==
    \A i \in 1..(Len(spikes) - 1) : spikes[i + 1].t - spikes[i].t >= COOLDOWN_AFTER_SPIKE

\* C20: right after the viewer source has fired a viewer_spike, every sample
\* of its window equals the viewer count of the spike, whatever the number of
\* samples the window held.
C20_WindowRefilled ==
    viewer_out # NoEvent =>
        \A i \in 1..Len(viewer_history) :
            viewer_history[i] = spikes[Len(spikes)].viewer_count

(***************************************************************************)
(* SpecSources: the two sources of one streamer side by side, as           *)
(* RealtimeClipper.run starts them: the viewer loop polling a live stream  *)
(* and the chat source receiving messages.                                 *)
(***************************************************************************)
LivePolls == \E v \in {0, 100} : viewer_poll(viewer_maxlen, StreamData(TRUE, v))

PlainMessage ==
    /\ Len(sent) < MaxMessages
    /\ process_chat_message(Message("hello", {}, {}, {}))

NextSources ==
    \/ LivePolls
    \/ viewer_sleep
    \/ PlainMessage

SpecSources == Init /\ [][NextSources]_vars

\* C18: a viewer_spike the viewer source fires is recorded in the combo
\* window of the streamer; so a chat message that fires chat_velocity within
\* COMBO_WINDOW_SECONDS of a viewer_spike also fires the combo of the two
\* (combo_hype_moment, or combo_super_combo with a third type in the window).
C18_ViewerSpikeRecorded ==
    /\ viewer_out # NoEvent =>
          \E i \in 1..Len(events) :
              events[i].type = "viewer_spike" /\ events[i].t = spikes[Len(spikes)].t
    /\ (/\ sent # <<>>
        /\ spikes # <<>>
        /\ HasType(emitted, "chat_velocity")
        /\ spikes[Len(spikes)].t <= sent[Len(sent)]
        /\ sent[Len(sent)] - spikes[Len(spikes)].t <= COMBO_WINDOW_SECONDS)
          => (HasType(emitted, "combo_hype_moment") \/ HasType(emitted, "combo_super_combo"))


\* The last answer of get_stream_data.
LastData == stream_data[Len(stream_data)]

\* C21: after a successful poll that reports the stream not live, is_live is
\* false and the viewer window is empty; and the first live sample after the
\* source was offline is evaluated against a window holding that sample alone.
C21_OfflineClearsWindow ==
    /\ [](stream_data # <<>> /\ LastData.ok /\ ~LastData.is_live
             => ~is_live /\ viewer_history = <<>>)
    /\ [][ (~is_live /\ is_live')
             => /\ viewer_history' = <<LastData'.viewer_count>>
                /\ viewer_out' = NoEvent ]_vars

\* The stream is live again with one sample in the window, after a spike and
\* an offline answer.
C21_Witness ==
    /\ spikes # <<>>
    /\ is_live
    /\ Len(viewer_history) = 1
    /\ \E i \in 1..(Len(stream_data) - 1) : stream_data[i].ok /\ ~stream_data[i].is_live


(***************************************************************************)
(* SpecScenario: the viewer source on a live stream with a baseline window *)
(* of 40 seconds (a deque of 4 samples).                                   *)
(***************************************************************************)
ScenarioWindow == 40

ScenarioCounts == {100, 350, 900}

ScenarioPolls ==
    \E v \in ScenarioCounts :
        viewer_poll(ScenarioWindow \div POLL_INTERVAL, StreamData(TRUE, v))

NextScenario ==
    \/ ScenarioPolls
    \/ viewer_sleep

SpecScenario == Init /\ [][NextScenario]_vars

\* The viewer counts polled so far.
Polled == [i \in 1..Len(stream_data) |-> stream_data[i].viewer_count]

\* C22: with a window of 4 samples the counts 100, 100, 100, 100, 350 fire no
\* viewer_spike at samples 1 to 4 and fire one at the 5th sample, with ratio
\* 3.5 and confidence 1.0.
C22_ScenarioSpike ==
    /\ (Polled # <<>> /\ Len(Polled) <= 4 /\ \A i \in 1..Len(Polled) : Polled[i] = 100)
          => viewer_out = NoEvent
    /\ Polled = <<100, 100, 100, 100, 350>> => viewer_out = Event("viewer_spike", 100, 350)


(***************************************************************************)
(* SpecStatic: a chat source built with the static threshold receives a    *)
(* burst of messages.                                                      *)
(***************************************************************************)
MaxBurst == 16

BurstMessage ==
    /\ Len(sent) < MaxBurst
    /\ process_chat_message(Message("hello", {}, {}, {}))

BurstClock == Advance(1)

NextStatic ==
    \/ BurstMessage
    \/ BurstClock

SpecStatic == InitStatic /\ [][NextStatic]_vars

\* Every message so far arrived within one second of the first.
WithinOneSecond == sent # <<>> /\ sent[Len(sent)] - sent[1] <= 1

\* C23: with the static threshold of 15.0, none of 9 messages arriving
\* within one second fires chat_velocity, and the 16th of 16 messages arriving
\* within one second fires chat_velocity with confidence 1.0.
C23_StaticBurst ==
    /\ (WithinOneSecond /\ Len(sent) <= 9) => ~HasType(emitted, "chat_velocity")
    /\ (WithinOneSecond /\ Len(sent) = 16)
          => \E i \in 1..Len(emitted) : emitted[i] = Event("chat_velocity", 100, 0)


(***************************************************************************)
(* SpecKeywords: the chat source receives messages with and without the    *)
(* keywords, in one window or a window apart.                              *)
(***************************************************************************)
MaxKeywordMessages == 5

KeywordMessage ==
    /\ Len(sent) < MaxKeywordMessages
    /\ \E content \in { c \in Contents : c.emotes = {} } : process_chat_message(content)

KeywordClock == Advance(CHAT_WINDOW_SECONDS + 1)

NextKeywords ==
    \/ KeywordMessage
    \/ KeywordClock

SpecKeywords == Init /\ [][NextKeywords]_vars

Keywords == { CLIP_KEYWORDS[i] : i \in 1..Len(CLIP_KEYWORDS) }

\* self.keyword_counts.get(keyword, 0)
CountOf(counts, keyword) == IF keyword \in DOMAIN counts THEN counts[keyword] ELSE 0

\* The number of keyword events among the events fired.
KeywordEvents(out) == Cardinality({ i \in 1..Len(out) : out[i].type = "keyword" })

EMOTE_SPAM_THRESHOLD == 15

MaxEmoteMessages == 15

EmoteMessage ==
    /\ Len(sent) < MaxEmoteMessages
    /\ process_chat_message(Message("KEKW", {}, {"KEKW"}, {}))

EmoteClock == Advance(1)

NextEmotes ==
    \/ EmoteMessage
    \/ EmoteClock

SpecEmotes == Init /\ [][NextEmotes]_vars

\* C25: when the chat window holds at least EMOTE_SPAM_THRESHOLD messages
\* with the same emote (every message of SpecEmotes contains KEKW), the
\* message that was just processed fired an emote_flood event and recorded it
\* in the combo window.
C25_EmoteFlood ==
    Len(message_times) >= EMOTE_SPAM_THRESHOLD
        => /\ HasType(emitted, "emote_flood")
           /\ \E i \in 1..Len(events) :
                 events[i].type = "emote_flood" /\ events[i].t = sent[Len(sent)]


(***************************************************************************)
(* SpecEvents: the viewer source and the chat source of one streamer, the  *)
(* chat source built with the dynamic or with the static threshold.        *)
(***************************************************************************)
InitEither == Constructed /\ dynamic_baseline \in BOOLEAN

MaxEventMessages == 3

EventMessage ==
    /\ Len(sent) < MaxEventMessages
    /\ process_chat_message(Message("CLIP IT", {"CLIP IT"}, {}, {"CLIP IT"}))

NextEvents ==
    \/ LivePolls
    \/ viewer_sleep
    \/ EventMessage

SpecEvents == InitEither /\ [][NextEvents]_vars

MaxTries == 2     \* for _ in range(30): how often run() asks for the chatroom id

\* SegmentRecorder.stop(): running = False and the process is terminated.
recorder_stop ==
    /\ running' = FALSE
    /\ process' = (IF process = "alive" THEN "dead" ELSE process)
    /\ UNCHANGED <<files, next_chunk, mon, polled, starts>>

\* trigger.stop() on a trigger that exists (running = False).
Stopped(trigger) == IF trigger = "none" THEN "none" ELSE "stopped"

\* The body of RealtimeClipper.stop() (lines 464-480).
stop_components ==
    /\ clipper_running' = FALSE
    /\ recorder_stop
    /\ viewer_trigger' = Stopped(viewer_trigger)
    /\ chat_trigger' = Stopped(chat_trigger)

\* stop() called from outside run() (MultiStreamerClipper.stop, main).
stop ==
    /\ ~stopped
    /\ stopped' = TRUE
    /\ stop_components
    /\ UNCHANGED <<run_pc, tries, other_clipper, sideVars, actuatorVars, clockVars, chatVars, queryVars,
                   viewerVars>>

\* run(), lines 393-412: the segment directory is emptied, running = True,
\* the viewer trigger is created and started in its thread.
run_begin ==
    /\ run_pc = "init"
    /\ files' = <<>>
    /\ clipper_running' = TRUE
    /\ viewer_trigger' = "running"
    /\ run_pc' = "chatroom"
    /\ UNCHANGED <<running, process, next_chunk, mon, polled, starts, tries, chat_trigger, stopped,
                   other_clipper, sideVars, actuatorVars, clockVars, chatVars, queryVars, viewerVars>>

\* run(), lines 414-428: one round of the wait for the chatroom id, and the
\* start of the chat trigger when there is one.  get_chatroom_id() returns
\* the id the viewer loop cached, or asks the API itself (ok: it answered).
run_chatroom(ok) ==
    LET id == IF chatroom_id # None THEN chatroom_id
              ELSE IF ok THEN StreamData(FALSE, 0).chatroom ELSE None
    IN  /\ run_pc = "chatroom"
        /\ chatroom_id' = id
        /\ IF id # None
           THEN /\ chat_trigger' = "running"
                /\ run_pc' = "await_live"
                /\ UNCHANGED tries
           ELSE /\ tries' = tries + 1
                /\ run_pc' = (IF tries + 1 >= MaxTries THEN "await_live" ELSE "chatroom")
                /\ UNCHANGED chat_trigger
        /\ UNCHANGED <<clipper_running, viewer_trigger, stopped, other_clipper, sideVars, viewer_history,
                       is_live, next_poll, polls, spikes, stream_data, viewer_out,
                       actuatorVars, recorderVars, clockVars, chatVars, queryVars>>

\* run(), lines 430-445: the wait for the stream to go live ends, either
\* because running is false (return) or because the viewer trigger reports
\* the stream live (the recorder is started).
run_await_live(ok) ==
    /\ run_pc = "await_live"
    /\ IF ~clipper_running
       THEN /\ run_pc' = "done"
            /\ UNCHANGED recorderVars
       ELSE /\ is_live
            /\ start(ok)
            /\ run_pc' = "main"
    /\ UNCHANGED <<clipper_running, tries, viewer_trigger, chat_trigger, stopped, other_clipper, sideVars,
                   actuatorVars, clockVars, chatVars, queryVars, viewerVars>>

\* Mutant of supervise: the recorder is restarted whatever the viewer
\* trigger reports.
supervise_always(ok) == start(ok)

\* run(), lines 451-456: the recorder is not recording; it is started again
\* if the viewer trigger reports the stream live.
supervise(ok) == is_live /\ start(ok)

\* run(), lines 448-462: one round of the main loop, or its end in stop()
\* when running is false.
run_main(ok) ==
    /\ run_pc = "main"
    /\ IF ~clipper_running
       THEN /\ stop_components
            /\ run_pc' = "done"
       ELSE /\ ~is_recording
            /\ supervise(ok)
            /\ UNCHANGED <<run_pc, clipper_running, viewer_trigger, chat_trigger>>
    /\ UNCHANGED <<tries, stopped, other_clipper, sideVars, actuatorVars, clockVars, chatVars, queryVars,
                   viewerVars>>

(***************************************************************************)
(* SpecOrch: run() in its thread, the viewer loop while its trigger runs,  *)
(* the ffmpeg process that may end, and stop() called at any moment.       *)
(***************************************************************************)
OrchResponses == {StreamData(FALSE, 0), StreamData(TRUE, 100)}

OrchPolls ==
    /\ viewer_trigger = "running"
    /\ \E data \in OrchResponses : viewer_poll(viewer_maxlen, data)

RunChatroom == \E ok \in BOOLEAN : run_chatroom(ok)

RunAwaitLive == \E ok \in BOOLEAN : run_await_live(ok)

RunMain == \E ok \in BOOLEAN : run_main(ok)

NextOrch ==
    \/ run_begin
    \/ RunChatroom
    \/ RunAwaitLive
    \/ RunMain
    \/ stop
    \/ OrchPolls
    \/ viewer_sleep
    \/ ffmpeg_exit
    \/ MonitorPolls

SpecOrch == Init /\ [][NextOrch]_vars


(***************************************************************************)
(* Properties of the orchestrator.                                         *)
(***************************************************************************)
\* run() is in its main loop and the viewer trigger reports the stream live.
Recording == run_pc = "main" /\ is_live

\* C27: the chat source runs only while the orchestrator is recording: it is
\* not running before the viewer trigger has reported the stream live, nor
\* while the stream is reported offline again.
C27_ChatOnlyWhileRecording == chat_trigger = "running" => Recording


\* SpecSupervised: SpecOrch with the main loop of run() scheduled again and
\* again (it sleeps 5 seconds between rounds).
SpecSupervised == Init /\ [][NextOrch]_vars /\ WF_vars(RunMain)

C29_StopStopsEverything ==
    stopped => /\ viewer_trigger # "running"
               /\ chat_trigger # "running"
               /\ ~is_recording


(***************************************************************************)
(* MultiStreamerClipper: a second streamer's clipper beside the first.     *)
(* The segment files of every streamer live under SEGMENTS_DIR, each       *)
(* streamer's in its own subdirectory; files is the first streamer's.      *)
(***************************************************************************)
\* utils.cleanup.cleanup_old_segments(SEGMENTS_DIR): os.walk removes every
\* segment file under SEGMENTS_DIR, subdirectories included; what is left of
\* a streamer's directory listing s.
cleanup_segments_dir(s) == <<>>

\* The second streamer's thread enters RealtimeClipper.run (lines 393-406).
other_run_begin ==
    /\ other_clipper = "none"
    /\ other_clipper' = "running"
    /\ files' = cleanup_segments_dir(files)
    /\ UNCHANGED <<running, process, next_chunk, mon, polled, starts, run_pc, clipper_running, tries,
                   viewer_trigger, chat_trigger, stopped, sideVars,
                   actuatorVars, clockVars, chatVars, queryVars, viewerVars>>

\* The second streamer's run() ends: an exception ends its thread, or its
\* clipper is stopped.
other_run_ends ==
    /\ other_clipper = "running"
    /\ other_clipper' = "ended"
    /\ UNCHANGED <<run_pc, clipper_running, tries, viewer_trigger, chat_trigger, stopped, sideVars,
                   actuatorVars, recorderVars, clockVars, chatVars, queryVars, viewerVars>>

(***************************************************************************)
(* SpecMulti: the first streamer's clipper starts, goes live and records;  *)
(* the second streamer's thread is started after it.                       *)
(***************************************************************************)
MaxMultiChunks == 3

MultiPolls ==
    /\ viewer_trigger = "running"
    /\ viewer_poll(viewer_maxlen, StreamData(TRUE, 100))

MultiSegments == ffmpeg_write(MaxMultiChunks)

NextMulti ==
    \/ run_begin
    \/ RunChatroom
    \/ RunAwaitLive
    \/ MultiPolls
    \/ viewer_sleep
    \/ MultiSegments
    \/ MonitorPolls
    \/ other_run_begin
    \/ other_run_ends

SpecMulti == Init /\ [][NextMulti]_vars

\* C30: a step of the second streamer's clipper (its start, its failure or
\* its stop) leaves the first streamer's segment files, actuation state and
\* signal sources as they were.
C30_StreamersIsolated ==
    [][ other_clipper' # other_clipper
          => UNCHANGED <<files, last_clip_time, clips_today, clip_date,
                         viewer_trigger, chat_trigger, chatVars, viewerVars>> ]_vars


(***************************************************************************)
(* SpecFaults: the two sources deliver their events to _on_trigger, one at *)
(* a time, while                                                           *)
(* the recorder fills its buffer and the monitor thread evicts.  The       *)
(* handler's get_segments() (lines 195-197) lists the directory and then   *)
(* reads the mtime of every listed file; the monitor thread removes files  *)
(* in between (line 189), and os.path.getmtime raises FileNotFoundError    *)
(* for a file that is gone.                                                *)
(***************************************************************************)
MaxFaultChunks == 13     \* segment files written: one more than SEGMENTS_TO_KEEP

\* The exception leaves _on_trigger and fire().  ViewerTrigger.start has no
\* handler around self.fire(event) (line 125): the exception ends start() and
\* its thread.  ChatTrigger._on_message catches it (lines 118-119).
raise(t) ==
    /\ pc' = [pc EXCEPT ![t] = "idle"]
    /\ res' = [res EXCEPT ![t] = "raised"]
    /\ crashed' = IF t = "viewer" THEN crashed \cup {t} ELSE crashed

\* line 196: glob.glob(pattern), the listing of the directory
on_trigger_glob(t) ==
    /\ pc[t] = "segments"
    /\ Goto(t, [loc[t] EXCEPT !.segments = files], "sort")
    /\ UNCHANGED <<ev, last_clip_time, clips_today, clip_date, made, clockVars, recorderVars,
                   signalVars>>

Gone(listing) == \E i \in 1..Len(listing) : \A j \in 1..Len(files) : files[j] # listing[i]

\* line 197 and lines 201-203, 369-371: the listing sorted by mtime, its last
\* num_segments entries, the test for an empty result
on_trigger_sort(t) ==
    /\ pc[t] = "sort"
    /\ LET listing == loc[t].segments
           num_segments == ((CLIP_BEFORE + CLIP_AFTER) \div SEGMENT_DURATION) + 1
           segments == IF listing # <<>> THEN LastN(listing, num_segments) ELSE <<>>
           l == [loc[t] EXCEPT !.segments = segments]
       IN  IF Gone(listing)
           THEN /\ raise(t)
                /\ UNCHANGED <<loc, chatVars, queryVars, viewerVars, orchVars, statsVars, uploadVars>>
           ELSE /\ IF segments = <<>>
                   THEN Return(t, l, "rej_empty")
                   ELSE Goto(t, l, "create")
                /\ UNCHANGED signalVars
    /\ UNCHANGED <<ev, last_clip_time, clips_today, clip_date, made, clockVars, recorderVars>>

on_trigger_racing(t) ==
    \/ on_trigger_log(t)
    \/ on_trigger_roll(t)
    \/ on_trigger_quota(t)
    \/ on_trigger_cooldown(t)
    \/ on_trigger_glob(t)
    \/ on_trigger_sort(t)
    \/ on_trigger_create(t)
    \/ on_trigger_set_time(t)
    \/ on_trigger_inc_load(t)
    \/ on_trigger_inc_store(t)

\* An iteration of the viewer loop whose viewer_spike goes to the callback.
\* The loop runs as long as its thread does, and the callback runs inside
\* the iteration: the next one begins when it has returned.
viewer_fires(maxlen, data) ==
    /\ "viewer" \notin crashed
    /\ pc["viewer"] = "idle"
    /\ viewer_loop(maxlen, data)
    /\ IF viewer_out' # NoEvent
       THEN callback("viewer", viewer_out')
       ELSE UNCHANGED <<pc, ev, loc, res>>
    /\ UNCHANGED <<last_clip_time, clips_today, clip_date, made, recorderVars, clockVars,
                   chatVars, queryVars, orchVars, sideVars>>

\* A source whose thread is running fires an event; the events are processed
\* one at a time.
source_fires(t, e) ==
    /\ t \notin crashed
    /\ Quiescent
    /\ fire(t, e)

FaultViewer == \E e \in ConcViewerEvents : source_fires("viewer", e)

FaultChat == \E e \in ConcChatEvents : source_fires("chat", e)

FaultHandle == \E t \in Threads : on_trigger_racing(t)

FaultSegments == ffmpeg_write(MaxFaultChunks)

NextFaults ==
    \/ FaultViewer
    \/ FaultChat
    \/ FaultHandle
    \/ RecorderGoesLive
    \/ FaultSegments
    \/ MonitorPolls

SpecFaults == Init /\ [][NextFaults]_vars

\* C31: an exception raised in the callback while a source delivers an event
\* does not end that source: the viewer thread goes on polling and the chat
\* thread goes on taking messages.
C31_SourcesSurvive ==
    \A t \in Threads : res[t] = "raised" => t \notin crashed


(***************************************************************************)
(* SharedStats (src/src/web/live_stats.py): the statistics the dashboard   *)
(* reads.  Every method runs inside "with self._data_lock".                *)
(***************************************************************************)
pipelineVars ==
    <<actuatorVars, recorderVars, clockVars, chatVars, queryVars, viewerVars, orchVars>>

RECENT_TRIGGERS_KEPT == 20

MaxAdds == 25            \* add_trigger calls in one run
MaxContendedAdds == 3    \* the last of them come from the threads of both streamers

ViewerValues == {30000, 50000}

\* with self._data_lock: the lock is taken by one thread at a time.
lock_acquire(c, label) ==
    /\ stats_pc[c] = "idle"
    /\ data_lock = NoClient
    /\ data_lock' = c
    /\ stats_pc' = [stats_pc EXCEPT ![c] = label]

\* The end of the with block.
lock_release(c) ==
    /\ data_lock' = NoClient
    /\ stats_pc' = [stats_pc EXCEPT ![c] = "idle"]

\* update_viewers(streamer, count), lines 47-50
update_viewers_enter(c) ==
    /\ c.kind = "viewers"
    /\ lock_acquire(c, "write")
    /\ UNCHANGED <<recent_triggers, viewer_counts, adds, written, pipelineVars, faultVars,
                   uploadVars>>

update_viewers_write(c, count) ==
    /\ stats_pc[c] = "write"
    /\ viewer_counts' = SetCount(viewer_counts, c.streamer, count)
    /\ written' = SetCount(written, c.streamer, count)
    /\ lock_release(c)
    /\ UNCHANGED <<recent_triggers, adds, pipelineVars, faultVars, uploadVars>>

\* add_trigger(streamer, trigger_type, details), lines 57-80.  The event is
\* known by its streamer and by how many events were inserted before it.
add_trigger_enter(c) ==
    /\ c.kind = "triggers"
    /\ adds < MaxAdds
    /\ c.streamer = "xQc" \/ adds >= MaxAdds - MaxContendedAdds
    /\ lock_acquire(c, "insert")
    /\ UNCHANGED <<recent_triggers, viewer_counts, adds, written, pipelineVars, faultVars,
                   uploadVars>>

\* line 76: self.recent_triggers.insert(0, trigger_event)
add_trigger_insert(c) ==
    /\ stats_pc[c] = "insert"
    /\ recent_triggers' = <<[streamer |-> c.streamer, index |-> adds]>> \o recent_triggers
    /\ adds' = adds + 1
    /\ stats_pc' = [stats_pc EXCEPT ![c] = "trim"]
    /\ UNCHANGED <<viewer_counts, data_lock, written, pipelineVars, faultVars, uploadVars>>

\* Mutant of keep_last: the list is not cut.
keep_all(triggers) == triggers

\* lines 79-80: keep only the last 20
keep_last(triggers) ==
    IF Len(triggers) > RECENT_TRIGGERS_KEPT
    THEN SubSeq(triggers, 1, RECENT_TRIGGERS_KEPT)
    ELSE triggers

add_trigger_trim(c) ==
    /\ stats_pc[c] = "trim"
    /\ recent_triggers' = keep_last(recent_triggers)
    /\ lock_release(c)
    /\ UNCHANGED <<viewer_counts, adds, written, pipelineVars, faultVars, uploadVars>>

(***************************************************************************)
(* SpecStats: four threads call update_viewers and add_trigger             *)
(* concurrently, as test_thread_safety sets them up.                       *)
(***************************************************************************)
UpdateViewersEnters == \E c \in StatsClients : update_viewers_enter(c)
UpdateViewersWrites ==
    \E c \in StatsClients : \E count \in ViewerValues : update_viewers_write(c, count)
AddTriggerEnters == \E c \in StatsClients : add_trigger_enter(c)
AddTriggerInserts == \E c \in StatsClients : add_trigger_insert(c)
AddTriggerTrims == \E c \in StatsClients : add_trigger_trim(c)

NextStats ==
    \/ UpdateViewersEnters
    \/ UpdateViewersWrites
    \/ AddTriggerEnters
    \/ AddTriggerInserts
    \/ AddTriggerTrims

SpecStats == Init /\ [][NextStats]_vars

\* C32: whenever no call is in progress, recent_triggers holds the
\* min(n, 20) newest of the n events added, newest first (after 25 adds the
\* events 24 down to 5), and every streamer's viewer count is the last value
\* update_viewers was given for it.
C32_RecentTriggers ==
    data_lock = NoClient =>
        /\ Len(recent_triggers) = Min(adds, RECENT_TRIGGERS_KEPT)
        /\ \A i \in 1..Len(recent_triggers) : recent_triggers[i].index = adds - i
        /\ adds = 25 => /\ recent_triggers[1].index = 24
                        /\ recent_triggers[Len(recent_triggers)].index = 5
        /\ DOMAIN viewer_counts = DOMAIN written
        /\ \A s \in DOMAIN written : viewer_counts[s] = written[s]

\* 25 events were added by the two trigger threads in turn while both
\* viewer counts were being written.
C32_Witness ==
    /\ data_lock = NoClient
    /\ adds = 25
    /\ Len(recent_triggers) = RECENT_TRIGGERS_KEPT
    /\ recent_triggers[1].streamer # recent_triggers[2].streamer
    /\ DOMAIN viewer_counts = StatsStreamers
    /\ viewer_counts["xQc"] = 50000
    /\ viewer_counts["Shroud"] = 30000


\* C33: a poll of the monitor loop that finds more than SEGMENTS_TO_KEEP
\* segment files (the first poll after ffmpeg wrote a file) leaves exactly
\* SEGMENTS_TO_KEEP of them.
C33_PollEvicts ==
    [][ (~polled /\ polled' /\ Len(files) > SEGMENTS_TO_KEEP)
           => Len(files') = SEGMENTS_TO_KEEP ]_vars


\* C34: a chat message fires a combo event only if it also fired, and
\* recorded into the combo window, a trigger event of its own
\* (chat_velocity, keyword or emote_flood).
C34_ComboAfterTrigger ==
    (\E i \in 1..Len(emitted) : emitted[i].type \in ComboTypes)
        => \E i \in 1..Len(emitted) : emitted[i].type \in {"chat_velocity", "keyword", "emote_flood"}


\* The messages up to message i that contain keyword k and arrived within
\* the CHAT_WINDOW_SECONDS before it.
MatchesInWindow(k, i) ==
    { j \in 1..i : sent[j] >= sent[i] - CHAT_WINDOW_SECONDS /\ k \in keyword_log[j].contains }

\* C35: a keyword event is fired for a keyword only when at least
\* KEYWORD_THRESHOLD messages containing it arrived within the last
\* CHAT_WINDOW_SECONDS.
C35_RollingKeywordCount ==
    \A i \in 1..Len(keyword_log) :
        \A k \in keyword_log[i].fired : Cardinality(MatchesInWindow(k, i)) >= KEYWORD_THRESHOLD


\* C36: every chat_velocity event carries confidence 1.0, its velocity being
\* above the threshold that decided the spike.
C36_VelocityConfidence ==
    \A i \in 1..Len(emitted) : emitted[i].type = "chat_velocity" => emitted[i].confidence = 100


(***************************************************************************)
(* SpecSpikes: the viewer source polls a live stream and hands its         *)
(* viewer_spike events to _on_trigger while the recorder writes its first  *)
(* segment files.                                                          *)
(***************************************************************************)
SpikeCounts == {0, 100, 900}

SpikePolls == \E v \in SpikeCounts : viewer_fires(viewer_maxlen, StreamData(TRUE, v))

NextSpikes ==
    \/ SpikePolls
    \/ viewer_sleep
    \/ Handle
    \/ RecorderGoesLive
    \/ FirstSegments

SpecSpikes == Init /\ [][NextSpikes]_vars

C38_OneMonitor == Len(mon) <= 1


(***************************************************************************)
(* Uploader.upload (src/src/upload/base.py): the upload with automatic     *)
(* retry.  authenticate() and _do_upload() are the subclass's; each        *)
(* returns its result or raises.                                           *)
(***************************************************************************)
MAX_RETRIES == 3

\* upload() calls made on the one uploader (the manager keeps its uploaders)
MaxUploadCalls == 3

Outcomes == {"ok", "fail", "raise"}

\* UploadResult(success=False, error_message=..., attempts=attempts)
Failed(error, n) ==
    [attempts |-> n, returned |-> TRUE, success |-> FALSE, error |-> error]

\* upload() is called on an uploader that is not uploading (lines 130-133).
upload_call ==
    /\ upload_pc \in {"idle", "returned"}
    /\ upload_calls < MaxUploadCalls
    /\ upload_calls' = upload_calls + 1
    /\ upload_pc' = "loop"
    /\ attempts' = 0
    /\ do_uploads' = 0
    /\ last_result' = NoResult
    /\ result' = NoResult
    /\ UNCHANGED <<status, authenticated, last_error, pipelineVars, faultVars, statsVars>>

\* while attempts < self.MAX_RETRIES: the test, attempts += 1 and the
\* authentication (lines 135-152); after the loop, lines 182-194.
\* authenticate() sets _status to AUTHENTICATING itself, _last_error when it
\* fails and _authenticated when it succeeds.
upload_attempt(auth) ==
    /\ upload_pc = "loop"
    /\ IF attempts < MAX_RETRIES
       THEN /\ attempts' = attempts + 1
            /\ IF authenticated
               THEN /\ status' = "uploading"
                    /\ upload_pc' = "upload"
                    /\ UNCHANGED <<authenticated, last_error, last_result, result>>
               ELSE CASE auth = "ok" ->
                           /\ authenticated' = TRUE
                           /\ status' = "uploading"
                           /\ upload_pc' = "upload"
                           /\ UNCHANGED <<last_error, last_result, result>>
                      [] auth = "fail" ->
                           /\ status' = "authenticating"
                           /\ last_error' = "authentication"
                           /\ upload_pc' = "returned"
                           /\ result' = Failed("authentication", attempts')
                           /\ UNCHANGED <<authenticated, last_result>>
                      [] auth = "raise" ->
                           /\ status' = "authenticating"
                           /\ last_error' = "exception"
                           /\ last_result' = Failed("exception", attempts')
                           /\ upload_pc' = "retry"
                           /\ UNCHANGED <<authenticated, result>>
       ELSE /\ status' = "failed"
            /\ upload_pc' = "returned"
            /\ result' = IF last_result.returned
                         THEN last_result
                         ELSE Failed("retries", attempts)
            /\ UNCHANGED <<attempts, authenticated, last_error, last_result>>
    /\ UNCHANGED <<do_uploads, upload_calls, pipelineVars, faultVars, statsVars>>

\* result = self._do_upload(...) and the test of result.success (lines 154-174)
upload_do(outcome) ==
    /\ upload_pc = "upload"
    /\ do_uploads' = do_uploads + 1
    /\ CASE outcome = "ok" ->
              /\ status' = "completed"
              /\ upload_pc' = "returned"
              /\ result' = [attempts |-> attempts,
                            returned |-> TRUE,
                            success |-> TRUE,
                            error |-> "none"]
              /\ UNCHANGED <<last_error, last_result>>
         [] outcome = "fail" ->
              /\ last_result' = Failed("upload", attempts)
              /\ last_error' = "upload"
              /\ upload_pc' = "retry"
              /\ UNCHANGED <<status, result>>
         [] outcome = "raise" ->
              /\ last_result' = Failed("exception", attempts)
              /\ last_error' = "exception"
              /\ upload_pc' = "retry"
              /\ UNCHANGED <<status, result>>
    /\ UNCHANGED <<attempts, authenticated, upload_calls, pipelineVars, faultVars, statsVars>>

\* lines 176-180: the pause before the next attempt
upload_retry ==
    /\ upload_pc = "retry"
    /\ upload_pc' = "loop"
    /\ status' = IF attempts < MAX_RETRIES THEN "retry" ELSE status
    /\ UNCHANGED <<authenticated, attempts, do_uploads, upload_calls, last_error, last_result,
                   result, pipelineVars, faultVars, statsVars>>

UploadAttempts == \E auth \in Outcomes : upload_attempt(auth)

UploadRuns == \E outcome \in Outcomes : upload_do(outcome)

NextUpload ==
    \/ upload_call
    \/ UploadAttempts
    \/ UploadRuns
    \/ upload_retry

SpecUpload == Init /\ [][NextUpload]_vars

\* C39: an upload() call invokes _do_upload at most MAX_RETRIES times; a
\* successful result comes with status COMPLETED and attempts equal to the
\* attempts made; a failed result comes with status FAILED.
C39_UploadRetry ==
    /\ do_uploads <= MAX_RETRIES
    /\ result.returned =>
          IF result.success
          THEN /\ status = "completed"
               /\ result.attempts = attempts
          ELSE status = "failed"

====
